---- MODULE Spec2Model ----
(***************************************************************************)
(* A model of the Phoenix kernel's process syscalls (sys_exit,             *)
(* sys_exit_group, sys_wait4, sys_clone), of the driver's NetBufPool and   *)
(* raw buffer handles, of the executor's ready queue, of the kernel's     *)
(* checked access to user memory (mm/user_ptr.rs), of the dentry tree      *)
(* (vfs-core/src/dentry.rs) and of the device manager's interrupt dispatch *)
(* (driver/src/manager.rs).                                                *)
(*                                                                         *)
(* Syscall handlers are atomic between their suspension points: the        *)
(* executor is cooperative and the board is configured with one hart       *)
(* (config/src/board.rs: HARTS = 1).                                       *)
(***************************************************************************)
EXTENDS Integers, Sequences, FiniteSets, TLC

----------------------------------------------------------------------------
(* Bounds *)

\* Largest tid the model hands out (tid 1 is the init process).
MaxTid == 3

\* Largest pool capacity given to NetBufPool::new.
MaxCap == 3

\* Number of continuations handed to the executor's spawn.
MaxTasks == 3

\* Number of harts running the executor's poll loop.
MaxHarts == 2

\* Largest page number of the user address space (page 0 is never mapped).
MaxPage == 2

\* Deepest nesting of the user-access gate on one hart.
MaxNest == 2

----------------------------------------------------------------------------
(* Program constants *)

InitTid == 1

\* CloneFlags bits
CLONE_VM == 256
CLONE_FS == 512
CLONE_FILES == 1024
CLONE_SIGHAND == 2048
CLONE_PARENT == 32768
CLONE_THREAD == 65536
CLONE_SETTLS == 524288
CLONE_PARENT_SETTID == 1048576
CLONE_CHILD_CLEARTID == 2097152
CLONE_CHILD_SETTID == 16777216

\* WaitOptions bits
WNOHANG == 1
WUNTRACED == 2
WCONTINUED == 8

MIN_BUFFER_LEN == 1526
MAX_BUFFER_LEN == 65535

----------------------------------------------------------------------------
(* Input sets *)

Tids == 1..MaxTid

\* exit codes passed to exit / exit_group: one in range, one whose bits above
\* the low eight are set (-1 is 0xFFFFFFFF)
ExitCodes == {42, -1}

\* pid argument of wait4
PidInputs == {-2, -1, 0} \cup Tids

\* the wstatus pointer: null, mapped and writable, or unmapped
WsInputs == {"null", "ok", "bad"}

\* option argument of wait4: 0, WNOHANG
OptionInputs == {0, 1}

\* flags argument of clone:
\*   17     SIGCHLD exit signal only (fork)
\*   68864  VM | SIGHAND | THREAD
\*   65536  THREAD
\*   67584  THREAD | SIGHAND
\*   2048   SIGHAND
\*   8192   a bit CloneFlags does not define
CloneFlagInputs == {17, 68864, 65536, 67584, 2048, 8192}

NoTid == 0
NoCode == -1000
NoWrite == -1001

VARIABLES
    \* ---- tasks ----
    nextTid,      \* the next fresh tid
    registry,     \* TASK_MANAGER: the tids it maps
    leader,       \* tid -> tid of the thread-group leader (the task's pid)
    parentOf,     \* tid -> tid of the parent, NoTid if none
    children,     \* tid -> the keys of the task's children map
    zombie,       \* tid -> zombie flag
    exit_code,    \* tid -> exit-code slot
    exited,       \* tid -> do_exit has run
    pending,      \* tid -> pending SIGCHLD SigDetails::CHLD records
    spawned,      \* tids handed to spawn_user_task
    \* ---- the init process's sys_wait4 ----
    pc,           \* "user", "suspended", "returned"
    w,            \* arguments of the call in progress / last call
    ret,          \* result of the last call
    panicked,     \* the kernel has aborted
    \* ---- observation ----
    exitArg,      \* tid of a leader -> the code it exited with, NoCode if none
    cloneRet,     \* sys_clone's result: flags, value, tid counter before
    \* ---- NetBufPool ----
    pool,         \* result of NetBufPool::new
    free_list,    \* the pool's free list (a Vec used as a stack)
    live,         \* the NetBufs allocated and not yet dropped
    netObs,       \* the last pool operation, its slot, and the one before it
    leaked,       \* heap address -> the NetBuf a Box::into_raw left there
    raw,          \* the NetBufPtr handles held by descriptor rings
    queue,        \* TASK_QUEUE: the ready continuations, front first
    tstate,       \* per continuation: unspawned, idle, scheduled, running,
                  \* running_woken, done
    cur,          \* per hart: the continuation it is polling, or NoTask
    hpc,          \* per hart: "out" of run_until_idle, or in its "loop"
    burst,        \* the enqueues since the last pop, oldest first
    must,         \* pairs <<a, b>>: a stood ahead of b when b was enqueued
                  \* at the tail, or a was enqueued at the head over b
    fifo,         \* pairs <<a, b>> of one class, a enqueued before b with
                  \* no pop in between, neither popped yet
    page_table,   \* per user page: none, lazy (mapped, not yet present),
                  \* present (readable and writable), ro (present, read-only)
    umem,         \* the bytes of user memory
    stvec,        \* the installed trap vector: kernel or user_rw
    sum_cnt,      \* per hart: the nesting depth of the user-access gate
    views,        \* the views into user memory that are alive
    uobs,         \* the last user-memory operation and what it did
    wpc,          \* per task: in "user" mode, "in_wait4" holding wstatus,
                  \* "suspended" at the SIGCHLD await, "resumed" after it
    whart,        \* per task: the hart it runs on, or NoHart
    \* ---- the dentry tree ----
    dents,        \* per dentry: its DentryMeta (used = it is allocated)
    disk,         \* per directory dentry and name: what the filesystem
                  \* holds under that name (none, dir, file)
    dobs,         \* the last dentry operation and what it did
    \* ---- the device manager ----
    irq_map,      \* DeviceManager::irq_map: the IRQ numbers bound to devices
    plic,         \* DeviceManager::plic: probed or not; the IRQs raised and
                  \* not yet claimed; the pairs <<irq, context>> claimed and
                  \* not yet completed
    iobs,         \* what the last handle_irq did, in order
    \* ---- task times ----
    user_system_time, \* tid -> the task's own user + system time
    child_time,   \* tid -> the children-time accumulator of its TimeStat
    \* ---- handlers in progress on other harts ----
    xpc,          \* tid -> where its sys_exit / sys_exit_group stands
    gpc           \* hart -> where its get_child_or_create stands

procVars == <<nextTid, registry, leader, parentOf, children, zombie, exit_code,
              exited, pending, spawned, pc, w, ret, panicked, exitArg,
              cloneRet>>
netVars == <<pool, free_list, live, netObs, leaked, raw>>
execVars == <<queue, tstate, cur, hpc, burst, must, fifo>>
userVars == <<page_table, umem, stvec, sum_cnt, views, uobs, wpc, whart>>
vfsVars == <<dents, disk, dobs>>
devVars == <<irq_map, plic, iobs>>
statVars == <<user_system_time, child_time>>
raceVars == <<xpc, gpc>>
vars == <<procVars, netVars, execVars, userVars, vfsVars, devVars, statVars,
          raceVars>>

----------------------------------------------------------------------------
(* Helpers *)

RECURSIVE SumSet(_)
SumSet(S) == IF S = {} THEN 0
             ELSE LET x == CHOOSE y \in S : TRUE IN x + SumSet(S \ {x})

\* bit b (a power of two) is set in the non-negative integer x
HasBit(x, b) == (x \div b) % 2 = 1

\* i32 `c & 0xFF`: the low eight bits of the two's complement value
And0xFF(c) == c % 256

\* mutant: the code is shifted without being masked
EncodeExit_NoMask(c) == c * 256

\* `(exit_code & 0xFF) << 8`
EncodeExit(c) == And0xFF(c) * 256

Allocated == 1..(nextTid - 1)

\* the tasks of t's thread group
ThreadGroup(t) == {u \in Allocated : leader[u] = leader[t]}

is_leader(t) == leader[t] = t

KnownCloneBits == {CLONE_VM, CLONE_FS, CLONE_FILES, CLONE_SIGHAND, CLONE_PARENT,
                   CLONE_THREAD, CLONE_SETTLS, CLONE_PARENT_SETTID,
                   CLONE_CHILD_CLEARTID, CLONE_CHILD_SETTID}

\* CloneFlags::from_bits: the flags present in bits, and whether from_bits
\* returns Some (every bit of bits is a defined flag)
CloneFlagSet(bits) == {b \in KnownCloneBits : HasBit(bits, b)}

CloneBitsValid(bits) == SumSet(CloneFlagSet(bits)) = bits

\* WaitOptions::from_bits_truncate
WaitOptionsFromBitsTruncate(o) == {b \in {WNOHANG, WUNTRACED, WCONTINUED} : HasBit(o, b)}

NoRet == [kind |-> "none", val |-> 0, err |-> "", path |-> "none", ws |-> NoWrite]
NoCall == [pid |-> -1, ws |-> "null", option |-> 0]
NoClone == [flags |-> 0, kind |-> "none", val |-> 0, err |-> "", before |-> 0]

----------------------------------------------------------------------------
(* Initial state: the init process alone, no pool *)

ProcInit ==
    /\ nextTid = 2
    /\ registry = {InitTid}
    /\ leader = [t \in Tids |-> t]
    /\ parentOf = [t \in Tids |-> NoTid]
    /\ children = [t \in Tids |-> {}]
    /\ zombie = [t \in Tids |-> FALSE]
    /\ exit_code = [t \in Tids |-> 0]
    /\ exited = [t \in Tids |-> FALSE]
    /\ pending = [t \in Tids |-> {}]
    /\ spawned = {}
    /\ pc = "user"
    /\ w = NoCall
    /\ ret = NoRet
    /\ panicked = FALSE
    /\ exitArg = [t \in Tids |-> NoCode]
    /\ cloneRet = NoClone

\* no continuation, an empty queue, every hart outside run_until_idle
ExecTasks == 1..MaxTasks
Harts == 1..MaxHarts
NoTask == 0

ExecIdle ==
    /\ queue = <<>>
    /\ tstate = [t \in ExecTasks |-> "unspawned"]
    /\ cur = [h \in Harts |-> NoTask]
    /\ hpc = [h \in Harts |-> "out"]
    /\ burst = <<>>
    /\ must = {}
    /\ fifo = {}

\* bytes per page in the model (the kernel's pages are larger)
PageSize == 2
UserPages == 1..MaxPage
UserAddrs == (1 * PageSize)..((MaxPage + 1) * PageSize - 1)
NoHart == 0
NoObs == [op |-> "none", ptr |-> 0, len |-> 0, res |-> "none",
          out |-> <<>>, trace |-> <<>>]

\* no page mapped, the kernel trap vector installed, every gate closed
UserIdle ==
    /\ page_table = [p \in UserPages |-> "none"]
    /\ umem = [a \in UserAddrs |-> 0]
    /\ stvec = "kernel"
    /\ sum_cnt = [h \in Harts |-> 0]
    /\ views = {}
    /\ uobs = NoObs
    /\ wpc = [t \in ExecTasks |-> "user"]
    /\ whart = [t \in ExecTasks |-> NoHart]

\* the dentry tree after the root filesystem is mounted: the root dentry,
\* which has no parent and a directory inode; the filesystem holds a
\* directory "a" under the root
MaxDentry == 3
DentryIds == 1..MaxDentry
NoDentry == 0
RootId == 1
Names == {"a", "b"}
AllNames == Names \cup {"/"}
NoChildren == [n \in AllNames |-> NoDentry]
FreeDentry == [used |-> FALSE, name |-> "", parent |-> NoDentry,
               inode |-> "none", state |-> "UnInit", children |-> NoChildren]
NoDobs == [op |-> "none", dir |-> NoDentry, name |-> "", res |-> "none",
           child |-> NoDentry, calls |-> <<>>, flags |-> {}, path |-> <<>>]

VfsIdle ==
    /\ dents = [i \in DentryIds |->
                   IF i = RootId
                   THEN [FreeDentry EXCEPT !.used = TRUE, !.name = "/",
                                           !.inode = "dir"]
                   ELSE FreeDentry]
    /\ disk = [i \in DentryIds |-> [n \in Names |->
                   IF i = RootId /\ n = "a" THEN "dir" ELSE "none"]]
    /\ dobs = NoDobs

\* the device manager before probe(): nothing bound, nothing raised
MaxIrq == 3
Irqs == 1..MaxIrq
DevIdle ==
    /\ irq_map = {}
    /\ plic = [probed |-> FALSE, pending |-> {}, claimed |-> {}]
    /\ iobs = <<>>

\* no task has run yet, so every time is zero
StatIdle ==
    /\ user_system_time = [t \in Tids |-> 0]
    /\ child_time = [t \in Tids |-> 0]

\* no handler is part-way through on any hart
NotExiting == [at |-> "none", code |-> NoCode]
NoLookup == [at |-> "idle", dir |-> NoDentry, name |-> "", new_dentry |-> NoDentry,
             res |-> NoDentry]
RaceIdle ==
    /\ xpc = [t \in Tids |-> NotExiting]
    /\ gpc = [h \in Harts |-> NoLookup]

NetIdle ==
    /\ pool = [status |-> "none", capacity |-> 0, buf_len |-> 0]
    /\ free_list = <<>>
    /\ live = {}
    /\ netObs = [op |-> "none", offset |-> -1, prev |-> "none"]
    /\ leaked = <<>>
    /\ raw = {}

\* no syscall result is on its way to user mode: on the single hart a
\* handler's return reaches the caller before any other task runs
NoneInFlight == ret = NoRet /\ cloneRet = NoClone

\* a task that can enter a syscall: it exists, has not exited, and (for the
\* init process) is not inside sys_wait4
Running(t) ==
    /\ t \in Allocated
    /\ ~zombie[t]
    /\ ~panicked
    /\ NoneInFlight
    /\ (t = InitTid => pc = "user")

----------------------------------------------------------------------------
(* sys_exit *)

\* mutant: every exiting thread records the code
ExitRecordsCode_Always(t) == TRUE

\* line 72: only the thread-group leader records the code
ExitRecordsCode(t) == is_leader(t)

sys_exit(t, c) ==
    /\ Running(t)
    /\ t # InitTid
    /\ zombie' = [zombie EXCEPT ![t] = TRUE]
    /\ IF ExitRecordsCode(t)
       THEN exit_code' = [exit_code EXCEPT ![t] = EncodeExit(c)]
       ELSE UNCHANGED exit_code
    /\ exitArg' = IF is_leader(t) THEN [exitArg EXCEPT ![t] = c] ELSE exitArg
    /\ UNCHANGED <<nextTid, registry, leader, parentOf, children, exited,
                   pending, spawned, pc, w, ret, panicked, cloneRet>>
    /\ UNCHANGED <<netVars, execVars, userVars, vfsVars, devVars,
                   statVars, raceVars>>

(* sys_exit_group *)

sys_exit_group(t, c) ==
    /\ Running(t)
    /\ t # InitTid
    /\ zombie' = [u \in Tids |-> IF u \in ThreadGroup(t) THEN TRUE ELSE zombie[u]]
    /\ exit_code' = [exit_code EXCEPT ![t] = EncodeExit(c)]
    /\ exitArg' = IF is_leader(t) THEN [exitArg EXCEPT ![t] = c] ELSE exitArg
    /\ UNCHANGED <<nextTid, registry, leader, parentOf, children, exited,
                   pending, spawned, pc, w, ret, panicked, cloneRet>>
    /\ UNCHANGED <<netVars, execVars, userVars, vfsVars, devVars,
                   statVars, raceVars>>

(* Task::do_exit: the last thread of a group to leave delivers SIGCHLD,    *)
(* carrying the group's pid and the leader's exit code, to the parent.     *)

do_exit(t) ==
    /\ t \in Allocated
    /\ ~panicked
    /\ NoneInFlight
    /\ zombie[t]
    /\ ~exited[t]
    /\ exited' = [exited EXCEPT ![t] = TRUE]
    /\ LET l == leader[t]
           p == parentOf[l]
       IN IF (\A u \in ThreadGroup(t) \ {t} : exited[u]) /\ p # NoTid
          THEN pending' = [pending EXCEPT ![p] =
                              @ \cup {[pid |-> l, status |-> exit_code[l],
                                        time |-> user_system_time[l]]}]
          ELSE UNCHANGED pending
    /\ UNCHANGED <<nextTid, registry, leader, parentOf, children, zombie,
                   exit_code, spawned, pc, w, ret, panicked, exitArg, cloneRet>>
    /\ UNCHANGED <<netVars, execVars, userVars, vfsVars, devVars,
                   statVars, raceVars>>

----------------------------------------------------------------------------
(* sys_wait4, called by the init process *)

\* the zombie-scan match of lines 144-160; NoTid when no zombie matches
\* (children is a BTreeMap: values() iterates in tid order)
ZombieScan(pid) ==
    LET kids == children[InitTid]
    IN IF pid = -1
       THEN LET z == {c \in kids : zombie[c]}
            IN IF z = {} THEN NoTid ELSE CHOOSE c \in z : \A d \in z : c <= d
       ELSE IF zombie[pid] THEN pid ELSE NoTid

\* mutant: the lookup of the target among the children is skipped
NoSuchChild_Never(pid) == FALSE

\* `children.get(&pid)` is None (line 147 / 153)
NoSuchChild(pid) == pid \notin children[InitTid]

\* TimeStat::update_child_time adds the child's user + system time to the
\* parent's children-time accumulator
update_child_time(t, time) == [child_time EXCEPT ![t] = @ + time]

\* lines 161-174: reap the zombie found by the scan; the times are added
\* (line 162) before wstatus is written (line 169)
ReapScan(ws, res_task) ==
    /\ child_time' = update_child_time(InitTid, user_system_time[res_task])
    /\ IF ws = "bad"
       THEN /\ ret' = [kind |-> "err", val |-> 0, err |-> "EFAULT",
                       path |-> "scan", ws |-> NoWrite]
            /\ UNCHANGED <<children, registry>>
       ELSE /\ ret' = [kind |-> "ok", val |-> res_task, err |-> "",
                       path |-> "scan",
                       ws |-> IF ws = "ok" THEN exit_code[res_task]
                                           ELSE NoWrite]
            /\ children' = [children EXCEPT ![InitTid] = @ \ {res_task}]
            /\ registry' = registry \ {res_task}

\* mutant: the reaped child is left in the children map
ReapSignal_KeepChild(ws, si) ==
    /\ child_time' = update_child_time(InitTid, si.time)
    /\ IF ws = "bad"
       THEN /\ ret' = [kind |-> "err", val |-> 0, err |-> "EFAULT",
                       path |-> "sigchld", ws |-> NoWrite]
            /\ UNCHANGED <<children, registry>>
       ELSE /\ ret' = [kind |-> "ok", val |-> si.pid, err |-> "",
                       path |-> "sigchld",
                       ws |-> IF ws = "ok" THEN si.status ELSE NoWrite]
            /\ UNCHANGED children
            /\ registry' = registry \ {si.pid}

\* lines 212-221: reap the child named by the delivered SIGCHLD; the times
\* it carries are added (line 212) before wstatus is written (line 217)
ReapSignal(ws, si) ==
    /\ child_time' = update_child_time(InitTid, si.time)
    /\ IF ws = "bad"
       THEN /\ ret' = [kind |-> "err", val |-> 0, err |-> "EFAULT",
                       path |-> "sigchld", ws |-> NoWrite]
            /\ UNCHANGED <<children, registry>>
       ELSE /\ ret' = [kind |-> "ok", val |-> si.pid, err |-> "",
                       path |-> "sigchld",
                       ws |-> IF ws = "ok" THEN si.status ELSE NoWrite]
            /\ children' = [children EXCEPT ![InitTid] = @ \ {si.pid}]
            /\ registry' = registry \ {si.pid}

ReturnEarly(kind, val, err, path) ==
    /\ ret' = [kind |-> kind, val |-> val, err |-> err, path |-> path,
               ws |-> NoWrite]
    /\ pc' = "returned"
    /\ UNCHANGED <<children, registry, panicked, child_time>>

sys_wait4(pid, ws, option) ==
    /\ Running(InitTid)
    /\ w' = [pid |-> pid, ws |-> ws, option |-> option]
    /\ IF children[InitTid] = {}
       THEN ReturnEarly("err", 0, "ECHILD", "nochild")
       ELSE IF pid = 0 \/ pid < -1
       THEN \* unimplemented!()
            /\ panicked' = TRUE
            /\ UNCHANGED <<children, registry, ret, pc, child_time>>
       ELSE IF pid > 0 /\ NoSuchChild(pid)
       THEN ReturnEarly("err", 0, "ECHILD", "nopid")
       ELSE LET res_task == ZombieScan(pid)
            IN IF res_task # NoTid
               THEN /\ ReapScan(ws, res_task)
                    /\ pc' = "returned"
                    /\ UNCHANGED panicked
               ELSE IF WNOHANG \in WaitOptionsFromBitsTruncate(option)
               THEN ReturnEarly("ok", 0, "", "nohang")
               ELSE /\ pc' = "suspended"
                    /\ UNCHANGED <<children, registry, ret, panicked,
                                   child_time>>
    /\ UNCHANGED <<nextTid, leader, parentOf, zombie, exit_code, exited,
                   pending, spawned, exitArg, cloneRet>>
    /\ UNCHANGED <<netVars, execVars, userVars, vfsVars, devVars,
                   user_system_time, raceVars>>

\* mutant: a wait for one child takes any child's SIGCHLD
WakeMatches_Any(pid, child_pid) == TRUE

\* line 202: the delivered SIGCHLD is the one a wait for `pid` expects
\* (a wait for any child, line 181-191, takes every SIGCHLD)
WakeMatches(pid, child_pid) == pid = -1 \/ child_pid = pid

\* WaitExpectSignal(SIGCHLD) completes with a pending SIGCHLD, which it
\* takes from the pending set; lines 180-221
sys_wait4_wake(si) ==
    /\ pc = "suspended"
    /\ ~panicked
    /\ NoneInFlight
    /\ si \in pending[InitTid]
    /\ pending' = [pending EXCEPT ![InitTid] = @ \ {si}]
    /\ IF WakeMatches(w.pid, si.pid)
       THEN /\ ReapSignal(w.ws, si)
            /\ pc' = "returned"
       ELSE UNCHANGED <<children, registry, ret, pc, child_time>>
    /\ UNCHANGED <<nextTid, leader, parentOf, zombie, exit_code, exited,
                   spawned, w, panicked, exitArg, cloneRet>>
    /\ UNCHANGED <<netVars, execVars, userVars, vfsVars, devVars,
                   user_system_time, raceVars>>

\* the result of sys_wait4 or sys_clone reaches user mode
ret_to_user ==
    /\ ~NoneInFlight
    /\ ~panicked
    /\ pc' = IF pc = "returned" THEN "user" ELSE pc
    /\ w' = IF pc = "returned" THEN NoCall ELSE w
    /\ ret' = NoRet
    /\ cloneRet' = NoClone
    /\ UNCHANGED <<nextTid, registry, leader, parentOf, children, zombie,
                   exit_code, exited, pending, spawned, panicked,
                   exitArg>>
    /\ UNCHANGED <<netVars, execVars, userVars, vfsVars, devVars,
                   statVars, raceVars>>

----------------------------------------------------------------------------
(* sys_clone *)

\* Task::do_clone: a thread joins the caller's group and has the caller's
\* parent; a process is its own leader and a child of the caller
do_clone(t, flags, new) ==
    /\ nextTid' = nextTid + 1
    /\ registry' = registry \cup {new}
    /\ IF CLONE_THREAD \in flags
       THEN /\ leader' = [leader EXCEPT ![new] = leader[t]]
            /\ parentOf' = [parentOf EXCEPT ![new] = parentOf[t]]
            /\ UNCHANGED children
       ELSE /\ leader' = [leader EXCEPT ![new] = new]
            /\ parentOf' = [parentOf EXCEPT ![new] = t]
            /\ children' = [children EXCEPT ![t] = @ \cup {new}]

\* The process tree the model explores: the init process is single-threaded
\* and creates processes, and those processes create threads.
InScope(t, bits) ==
    IF HasBit(bits, CLONE_THREAD) THEN t # InitTid ELSE t = InitTid

sys_clone(t, flags) ==
    /\ Running(t)
    /\ InScope(t, flags)
    /\ LET exit_signal == flags % 256
           bits == flags - exit_signal
       IN IF ~CloneBitsValid(bits)
          THEN /\ cloneRet' = [flags |-> flags, kind |-> "err", val |-> 0,
                               err |-> "EINVAL", before |-> nextTid]
               /\ UNCHANGED <<nextTid, registry, leader, parentOf, children,
                              spawned>>
          ELSE /\ nextTid <= MaxTid
               /\ do_clone(t, CloneFlagSet(bits), nextTid)
               /\ spawned' = spawned \cup {nextTid}
               /\ cloneRet' = [flags |-> flags, kind |-> "ok", val |-> nextTid,
                               err |-> "", before |-> nextTid]
    /\ UNCHANGED <<zombie, exit_code, exited, pending, pc, w, ret, panicked,
                   exitArg>>
    /\ UNCHANGED <<netVars, execVars, userVars, vfsVars, devVars,
                   statVars, raceVars>>

----------------------------------------------------------------------------
(* The process specification *)

ProcNext ==
    \/ \E t \in Tids, c \in ExitCodes : sys_exit(t, c)
    \/ \E t \in Tids, c \in ExitCodes : sys_exit_group(t, c)
    \/ \E t \in Tids : do_exit(t)
    \/ \E pid \in PidInputs, ws \in WsInputs, o \in OptionInputs :
          sys_wait4(pid, ws, o)
    \/ \E si \in pending[InitTid] : sys_wait4_wake(si)
    \/ ret_to_user
    \/ \E t \in Tids, f \in CloneFlagInputs : sys_clone(t, f)

Init ==
    /\ ProcInit /\ NetIdle /\ ExecIdle /\ UserIdle /\ VfsIdle /\ DevIdle
    /\ StatIdle /\ RaceIdle

SpecProc == Init /\ [][ProcNext]_vars

----------------------------------------------------------------------------
(* NetBufPool *)

\* arguments given to NetBufPool::new
CapInputs == 0..MaxCap
LenInputs == {1525, 1526, 1600, 65535, 65536}

\* the free list built by NetBufPool::new: [0, buf_len, 2 * buf_len, ...]
InitialFreeList(capacity, buf_len) == [i \in 1..capacity |-> (i - 1) * buf_len]

NetBufPoolNew(capacity, buf_len) ==
    /\ pool.status = "none"
    /\ IF capacity = 0
       THEN /\ pool' = [status |-> "InvalidParam", capacity |-> 0, buf_len |-> 0]
            /\ UNCHANGED free_list
       ELSE IF ~(MIN_BUFFER_LEN <= buf_len /\ buf_len <= MAX_BUFFER_LEN)
       THEN /\ pool' = [status |-> "InvalidParam", capacity |-> 0, buf_len |-> 0]
            /\ UNCHANGED free_list
       ELSE /\ pool' = [status |-> "ok", capacity |-> capacity,
                        buf_len |-> buf_len]
            /\ free_list' = InitialFreeList(capacity, buf_len)
    /\ netObs' = [op |-> "new", offset |-> -1, prev |-> netObs.op]
    /\ UNCHANGED <<live, leaked, raw>>
    /\ UNCHANGED <<procVars, execVars, userVars, vfsVars, devVars,
                   statVars, raceVars>>

\* the NetBuf that alloc builds for a slot
NewNetBuf(pool_offset, boxed) ==
    [header_len |-> 0, packet_len |-> 0, capacity |-> pool.buf_len,
     pool_offset |-> pool_offset, boxed |-> boxed]

\* mutant: the slot handed out stays in the free list
Pop_Keep(list) == list

\* `free_list.lock().pop()`: the list without its last entry
Pop(list) == SubSeq(list, 1, Len(list) - 1)

\* NetBufPool::alloc (boxed = FALSE) and NetBufPool::alloc_boxed (boxed = TRUE)
alloc(boxed) ==
    /\ pool.status = "ok"
    /\ IF free_list = <<>>
       THEN /\ netObs' = [op |-> "alloc_none", offset |-> -1, prev |-> netObs.op]
            /\ UNCHANGED <<free_list, live>>
       ELSE LET pool_offset == free_list[Len(free_list)]
            IN /\ free_list' = Pop(free_list)
               /\ live' = live \cup {NewNetBuf(pool_offset, boxed)}
               /\ netObs' = [op |-> "alloc", offset |-> pool_offset,
                              prev |-> netObs.op]
    /\ UNCHANGED <<pool, leaked, raw>>
    /\ UNCHANGED <<procVars, execVars, userVars, vfsVars, devVars,
                   statVars, raceVars>>

\* mutant: the freed slot goes to the other end of the free list
dealloc_Front(list, pool_offset) == <<pool_offset>> \o list

\* NetBufPool::dealloc: `free_list.lock().push(pool_offset)`
dealloc(list, pool_offset) == Append(list, pool_offset)

\* Drop for NetBuf
drop(b) ==
    /\ b \in live
    /\ free_list' = dealloc(free_list, b.pool_offset)
    /\ live' = live \ {b}
    /\ netObs' = [op |-> "drop", offset |-> b.pool_offset, prev |-> netObs.op]
    /\ UNCHANGED <<pool, leaked, raw>>
    /\ UNCHANGED <<procVars, execVars, userVars, vfsVars, devVars,
                   statVars, raceVars>>

\* arguments of set_header_len and set_packet_len (an Ethernet header, a
\* minimum frame)
HeaderLenInputs == {14}
PacketLenInputs == {60}

\* NetBuf::set_header_len
set_header_len(b, header_len) ==
    /\ b \in live
    /\ header_len + b.packet_len <= b.capacity
    /\ b.header_len # header_len
    /\ live' = (live \ {b}) \cup {[b EXCEPT !.header_len = header_len]}
    /\ UNCHANGED <<pool, free_list, netObs, leaked, raw>>
    /\ UNCHANGED <<procVars, execVars, userVars, vfsVars, devVars,
                   statVars, raceVars>>

\* NetBuf::set_packet_len
set_packet_len(b, packet_len) ==
    /\ b \in live
    /\ b.header_len + packet_len <= b.capacity
    /\ b.packet_len # packet_len
    /\ live' = (live \ {b}) \cup {[b EXCEPT !.packet_len = packet_len]}
    /\ UNCHANGED <<pool, free_list, netObs, leaked, raw>>
    /\ UNCHANGED <<procVars, execVars, userVars, vfsVars, devVars,
                   statVars, raceVars>>

\* heap addresses a Box<NetBuf> can have, and the address of the pool's arena
BoxAddrs == 1..(MaxCap + 1)
PoolBase == MAX_BUFFER_LEN + 1

\* the NetBuf found at a heap address; what lies at any other address is
\* not a NetBuf
NotANetBuf == [header_len |-> -1, packet_len |-> -1, capacity |-> -1,
               pool_offset |-> -1, boxed |-> TRUE]
HeapAt(a) == IF a \in DOMAIN leaked THEN leaked[a] ELSE NotANetBuf

\* `self.packet_mut().as_mut_ptr()`: the address of the packet part
PacketAddr(b) == PoolBase + b.pool_offset + b.header_len

\* NetBuf::into_buf_ptr: Box::into_raw gives up the Box without dropping
\* the NetBuf, which stays at its heap address a (the lowest free one here);
\* the handle carries that address, the packet's address and its length,
\* and `of` remembers the buffer it was made from
into_buf_ptr(b, a) ==
    /\ b \in live
    /\ b.boxed
    /\ a \in BoxAddrs \ DOMAIN leaked
    /\ \A x \in BoxAddrs \ DOMAIN leaked : a <= x
    /\ raw' = raw \cup {[raw_ptr |-> a, buf_ptr |-> PacketAddr(b),
                          len |-> b.packet_len, of |-> b]}
    /\ leaked' = [x \in DOMAIN leaked \cup {a} |->
                     IF x = a THEN b ELSE leaked[x]]
    /\ live' = live \ {b}
    /\ netObs' = [op |-> "into_buf_ptr", offset |-> b.pool_offset,
                  prev |-> netObs.op]
    /\ UNCHANGED <<pool, free_list>>
    /\ UNCHANGED <<procVars, execVars, userVars, vfsVars, devVars,
                   statVars, raceVars>>

\* mutant: the Box is rebuilt from the packet pointer
RawPtrOf_BufPtr(ptr) == ptr.buf_ptr

\* `ptr.raw_ptr::<Self>()`
RawPtrOf(ptr) == ptr.raw_ptr

\* NetBuf::from_buf_ptr: Box::from_raw makes the NetBuf at the handle's
\* address an owned Box again; the handle is consumed
from_buf_ptr(ptr) ==
    /\ ptr \in raw
    /\ raw' = raw \ {ptr}
    /\ live' = live \cup {HeapAt(RawPtrOf(ptr))}
    /\ leaked' = [x \in DOMAIN leaked \ {RawPtrOf(ptr)} |-> leaked[x]]
    /\ netObs' = [op |-> "from_buf_ptr", offset |-> ptr.of.pool_offset,
                  prev |-> netObs.op]
    /\ UNCHANGED <<pool, free_list>>
    /\ UNCHANGED <<procVars, execVars, userVars, vfsVars, devVars,
                   statVars, raceVars>>

NetNext ==
    \/ \E capacity \in CapInputs, buf_len \in LenInputs :
          NetBufPoolNew(capacity, buf_len)
    \/ \E boxed \in BOOLEAN : alloc(boxed)
    \/ \E b \in live : drop(b)

SpecNet == Init /\ [][NetNext]_vars

\* a driver's use of boxed buffers: pools of the smallest buffer length,
\* buffers filled in, handed to a descriptor ring as raw handles, taken
\* back and dropped
\* the buffers a driver hands to the ring: those it has filled in
Filled == {b \in live : b.header_len # 0 /\ b.packet_len # 0}

RawNext ==
    \/ \E capacity \in CapInputs : NetBufPoolNew(capacity, MIN_BUFFER_LEN)
    \/ alloc(TRUE)
    \/ \E b \in live : drop(b)
    \/ \E b \in live, l \in HeaderLenInputs : set_header_len(b, l)
    \/ \E b \in live, l \in PacketLenInputs : set_packet_len(b, l)
    \/ \E b \in Filled, a \in BoxAddrs : into_buf_ptr(b, a)
    \/ \E ptr \in raw : from_buf_ptr(ptr)

SpecRaw == Init /\ [][RawNext]_vars

----------------------------------------------------------------------------
(* The executor: TASK_QUEUE, spawn's schedule closure, run_until_idle.      *)
(* A continuation is scheduled through the closure spawn hands to           *)
(* async_task: with woken_while_running = FALSE when its Runnable or Waker  *)
(* is scheduled while it is suspended, and with woken_while_running = TRUE  *)
(* at the end of a poll during which it was woken.                          *)

SeqToSet(q) == {q[i] : i \in 1..Len(q)}

\* TaskQueue::push: push_back
push(q, runnable) == Append(q, runnable)

\* mutant: push_preempt puts the continuation at the back
push_preempt_Back(q, runnable) == Append(q, runnable)

\* TaskQueue::push_preempt: push_front
push_preempt(q, runnable) == <<runnable>> \o q

\* the schedule closure of spawn
schedule(q, runnable, woken_while_running) ==
    IF woken_while_running THEN push(q, runnable) ELSE push_preempt(q, runnable)

\* the enqueue bookkeeping: t joins the burst; the continuations it must
\* follow (tail) or that must follow it (head); the same-class pairs
Enqueued(t, woken_while_running) ==
    LET cls == IF woken_while_running THEN "push" ELSE "push_preempt" IN
    /\ burst' = Append(burst, <<t, cls>>)
    /\ must' = must \cup
                  IF woken_while_running
                  THEN {<<x, t>> : x \in SeqToSet(queue)}
                  ELSE {<<t, x>> : x \in SeqToSet(queue)}
    /\ fifo' = fifo \cup
                  {<<burst[i][1], t, cls>> : i \in {j \in 1..Len(burst) :
                                                       burst[j][2] = cls}}

\* spawn: the continuation exists, suspended, its Runnable not yet scheduled
spawn(t) ==
    /\ tstate[t] = "unspawned"
    /\ tstate' = [tstate EXCEPT ![t] = "idle"]
    /\ UNCHANGED <<queue, cur, hpc, burst, must, fifo>>
    /\ UNCHANGED <<procVars, netVars, userVars, vfsVars, devVars,
                   statVars, raceVars>>

\* an asynchronous event (or Runnable::schedule) wakes a suspended
\* continuation: schedule(runnable, woken_while_running = FALSE)
wake_suspended(t) ==
    /\ tstate[t] = "idle"
    /\ queue' = schedule(queue, t, FALSE)
    /\ tstate' = [tstate EXCEPT ![t] = "scheduled"]
    /\ Enqueued(t, FALSE)
    /\ UNCHANGED <<cur, hpc>>
    /\ UNCHANGED <<procVars, netVars, userVars, vfsVars, devVars,
                   statVars, raceVars>>

\* a continuation is woken during its poll (yield_now, or an event on
\* another hart): async_task notes it and schedules at the end of the poll
wake_running(t) ==
    /\ tstate[t] = "running"
    /\ tstate' = [tstate EXCEPT ![t] = "running_woken"]
    /\ UNCHANGED <<queue, cur, hpc, burst, must, fifo>>
    /\ UNCHANGED <<procVars, netVars, userVars, vfsVars, devVars,
                   statVars, raceVars>>

\* a hart enters run_until_idle (the count n it returns is not followed)
run_until_idle_enter(h) ==
    /\ hpc[h] = "out"
    /\ hpc' = [hpc EXCEPT ![h] = "loop"]
    /\ UNCHANGED <<queue, tstate, cur, burst, must, fifo>>
    /\ UNCHANGED <<procVars, netVars, userVars, vfsVars, devVars,
                   statVars, raceVars>>

\* TaskQueue::fetch: pop_front, the popped continuation (NoTask for None)
\* and the queue that is left
fetch(q) == IF q = <<>> THEN <<NoTask, q>> ELSE <<Head(q), Tail(q)>>

\* mutant: the loop does not stop on None
LoopEnds_Never(task) == FALSE

\* `while let Some(task) = TASK_QUEUE.fetch()`: the loop is left on None
LoopEnds(task) == task = NoTask

\* the loop head finds a continuation, pops it and starts task.run()
fetch_run(h) ==
    /\ hpc[h] = "loop"
    /\ cur[h] = NoTask
    /\ ~LoopEnds(fetch(queue)[1])
    /\ LET t == fetch(queue)[1] IN
        /\ queue' = fetch(queue)[2]
        /\ cur' = [cur EXCEPT ![h] = t]
        /\ tstate' = [t2 \in ExecTasks |->
                         IF t2 = t THEN "running" ELSE tstate[t2]]
        /\ burst' = <<>>
        /\ must' = {p \in must : p[1] # t /\ p[2] # t}
        /\ fifo' = {p \in fifo : p[1] # t /\ p[2] # t}
    /\ UNCHANGED hpc
    /\ UNCHANGED <<procVars, netVars, userVars, vfsVars, devVars,
                   statVars, raceVars>>

\* task.run() returns: the continuation completed, or it suspended; if it
\* was woken during the poll, async_task calls
\* schedule(runnable, woken_while_running = TRUE)
run_returns(h, ready) ==
    /\ hpc[h] = "loop"
    /\ cur[h] # NoTask
    /\ LET t == cur[h] IN
        IF ready
        THEN /\ tstate' = [tstate EXCEPT ![t] = "done"]
             /\ UNCHANGED <<queue, burst, must, fifo>>
        ELSE IF tstate[t] = "running_woken"
        THEN /\ queue' = schedule(queue, t, TRUE)
             /\ tstate' = [tstate EXCEPT ![t] = "scheduled"]
             /\ Enqueued(t, TRUE)
        ELSE /\ tstate' = [tstate EXCEPT ![t] = "idle"]
             /\ UNCHANGED <<queue, burst, must, fifo>>
    /\ cur' = [cur EXCEPT ![h] = NoTask]
    /\ UNCHANGED hpc
    /\ UNCHANGED <<procVars, netVars, userVars, vfsVars, devVars,
                   statVars, raceVars>>

\* the loop head finds the queue empty: run_until_idle returns
run_until_idle_return(h) ==
    /\ hpc[h] = "loop"
    /\ cur[h] = NoTask
    /\ LoopEnds(fetch(queue)[1])
    /\ hpc' = [hpc EXCEPT ![h] = "out"]
    /\ UNCHANGED <<queue, tstate, cur, burst, must, fifo>>
    /\ UNCHANGED <<procVars, netVars, userVars, vfsVars, devVars,
                   statVars, raceVars>>

\* what a hart inside run_until_idle does next
HartStep(h) ==
    \/ fetch_run(h)
    \/ \E ready \in BOOLEAN : run_returns(h, ready)
    \/ run_until_idle_return(h)

ExecNext ==
    \/ \E t \in ExecTasks : spawn(t)
    \/ \E t \in ExecTasks : wake_suspended(t)
    \/ \E t \in ExecTasks : wake_running(t)
    \/ \E h \in Harts : run_until_idle_enter(h)
    \/ \E h \in Harts : fetch_run(h)
    \/ \E h \in Harts, ready \in BOOLEAN : run_returns(h, ready)
    \/ \E h \in Harts : run_until_idle_return(h)

SpecExec == Init /\ [][ExecNext]_vars

\* every hart that is inside run_until_idle keeps running it
SpecExecFair == SpecExec /\ \A h \in Harts : WF_vars(HartStep(h))

----------------------------------------------------------------------------
(* User-memory access: UserPtr, UserSlice, Task::ensure_user_area.          *)
(* The task's memory space, the probe helpers, the trap vectors and the     *)
(* SumGuard are outside the sources at hand and follow the specification.   *)

USIZE_MAX == 2147483647          \* usize::MAX, at the checker's integer width
Bytes == {0, 65, 200}            \* NUL, an ASCII letter, a byte above 0x7f
PtrInputs == 0..((MaxPage + 1) * PageSize - 1)
SizeInputs == {1, 2}             \* size_of::<T>()
CountInputs == {0, 1, 3}         \* n of read_array, into_slice; val.len()
UserHart == 1                    \* the hart the calling task runs on
Ops == {"read", "read_array", "write", "write_array"}

\* VirtAddr::floor: the page of an address; floor().next(): the next page
floor(a) == a \div PageSize
next_page_beg(a) == (floor(a) + 1) * PageSize

PageState(pt, p) == IF p \in UserPages THEN pt[p] ELSE "none"

\* the probes: a load (store) at the address faults
will_read_fail(pt, a) == PageState(pt, floor(a)) \notin {"present", "ro"}
will_write_fail(pt, a) == PageState(pt, floor(a)) # "present"

\* MemorySpace::handle_page_fault: a mapped page that is not present is
\* made present; no mapping, or a mapping that forbids the access, fails
handle_page_fault(pt, a) ==
    IF PageState(pt, floor(a)) = "lazy"
    THEN [ok |-> TRUE, pt |-> [pt EXCEPT ![floor(a)] = "present"]]
    ELSE [ok |-> FALSE, pt |-> pt]

\* a load from user memory
Load(mem, a) == IF a \in UserAddrs THEN mem[a] ELSE 0

\* `str.push(c as char)`: the byte becomes the char U+00cc, and the String
\* holds its UTF-8 encoding
PushAsChar(str, c) ==
    IF c < 128 THEN Append(str, c)
    ELSE str \o <<192 + (c \div 64), 128 + (c % 64)>>

\* the per-page body of read_cstr: up to len bytes from beg, until a 0
RECURSIVE cstr_body(_, _, _, _, _)
cstr_body(mem, beg, len, str, tr) ==
    IF len = 0
    THEN [flow |-> "Continue", str |-> str, tr |-> tr, ended |-> FALSE]
    ELSE LET c == Load(mem, beg) IN
         IF c = 0
         THEN [flow |-> "Break", str |-> str,
               tr |-> Append(tr, <<"load", beg>>), ended |-> TRUE]
         ELSE cstr_body(mem, beg + 1, len - 1, PushAsChar(str, c),
                        Append(tr, <<"load", beg>>))

\* size_of::<usize>(), at the scale of PageSize: a page holds one word
WordSize == 2
JunkInputs == {0, 7}

\* a load of a usize word (little-endian) at a; under the user_rw trap
\* vector a load that faults is skipped and the value the code goes on with
\* is whatever its register held (junk)
LoadW(pt, mem, junk, a) ==
    IF \A i \in 0..(WordSize - 1) :
          PageState(pt, floor(a + i)) \in {"present", "ro"}
    THEN Load(mem, a) + 256 * Load(mem, a + 1)
    ELSE junk

\* the per-page body of read_cvec: `for _ in 0..len` loads one usize per
\* round and advances the pointer by one usize (`ptr.offset(1)`), len being
\* the number of BYTES up to the next page
RECURSIVE cvec_body(_, _, _, _, _, _, _)
cvec_body(pt, mem, junk, beg, len, vec, tr) ==
    IF len = 0
    THEN [flow |-> "Continue", str |-> vec, tr |-> tr, ended |-> FALSE]
    ELSE LET c == LoadW(pt, mem, junk, beg) IN
         IF c = 0
         THEN [flow |-> "Break", str |-> vec,
               tr |-> Append(tr, <<"loadw", beg>>), ended |-> TRUE]
         ELSE cvec_body(pt, mem, junk, beg + WordSize, len - 1,
                        Append(vec, c), Append(tr, <<"loadw", beg>>))

\* the `while readable_len < len` loop of ensure_user_area; f is the body
\* ("just" for just_ensure_user_area, "cstr" for read_cstr, "cvec" for
\* read_cvec)
RECURSIVE ensure_loop(_, _, _, _, _, _, _, _, _, _)
ensure_loop(pt, mem, junk, curr_vaddr, readable_len, len, access, f, str, tr) ==
    IF ~(readable_len < len)
    THEN [res |-> "Ok", pt |-> pt, stvec |-> "kernel", tr |-> tr,
          str |-> str, ended |-> FALSE]
    ELSE
    LET fails == IF access = "RO" THEN will_read_fail(pt, curr_vaddr)
                                  ELSE will_write_fail(pt, curr_vaddr)
        hpf == handle_page_fault(pt, curr_vaddr)
        pg == floor(curr_vaddr)
    IN  IF fails /\ ~hpf.ok
        THEN \* `.map_err(|_| SysError::EFAULT)?` returns at once
             [res |-> "EFAULT", pt |-> pt, stvec |-> "user_rw",
              tr |-> tr \o << <<"probe", pg>>, <<"fault_failed", pg>> >>,
              str |-> str, ended |-> FALSE]
        ELSE
        LET pt2 == IF fails THEN hpf.pt ELSE pt
            tr2 == IF fails THEN tr \o << <<"probe", pg>>, <<"fault", pg>> >>
                            ELSE Append(tr, <<"probe", pg>>)
            chunk == next_page_beg(curr_vaddr) - curr_vaddr
            r == IF f = "cstr" THEN cstr_body(mem, curr_vaddr, chunk, str, tr2)
                 ELSE IF f = "cvec"
                 THEN cvec_body(pt2, mem, junk, curr_vaddr, chunk, str, tr2)
                 ELSE [flow |-> "Continue", str |-> str, tr |-> tr2,
                       ended |-> FALSE]
        IN  IF r.flow = "Continue"
            THEN ensure_loop(pt2, mem, junk, next_page_beg(curr_vaddr),
                             readable_len + chunk, len, access, f, r.str, r.tr)
            ELSE [res |-> "Ok", pt |-> pt2, stvec |-> "kernel", tr |-> r.tr,
                  str |-> r.str, ended |-> r.ended]

\* Task::ensure_user_area
ensure_user_area(pt, sv, mem, junk, begin, len, access, f) ==
    IF len = 0
    THEN [res |-> "Ok", pt |-> pt, stvec |-> sv, tr |-> <<>>, str |-> <<>>,
          ended |-> FALSE]
    ELSE ensure_loop(pt, mem, junk, begin, 0, len, access, f, <<>>, <<>>)

\* Task::just_ensure_user_area
just_ensure_user_area(pt, sv, mem, begin, len, access) ==
    ensure_user_area(pt, sv, mem, 0, begin, len, access, "just")

\* SumGuard::new and its drop, on hart h
sum_inc(cnt, h) == [cnt EXCEPT ![h] = @ + 1]
sum_dec(cnt, h) == [cnt EXCEPT ![h] = IF @ > 0 THEN @ - 1 ELSE 0]

\* the kernel has panicked
Aborted == uobs.res = "panic"

\* mutant: the error of just_ensure_user_area is ignored
Propagates_Never(res) == FALSE

\* the `?` after just_ensure_user_area: an error returns at once
Propagates(res) == res # "Ok"

\* the elements ptr.add(i).read() loads, and their loads in the trace
LoadAll(mem, ptr, len) == [i \in 1..len |-> Load(mem, ptr + i - 1)]
LoadEvents(ptr, len) == [i \in 1..len |-> <<"load", ptr + i - 1>>]

\* the bytes ptr.write(v) stores, and their stores in the trace
StoreAll(mem, ptr, val) ==
    [a \in UserAddrs |-> IF a \in ptr..(ptr + Len(val) - 1)
                          THEN val[a - ptr + 1] ELSE mem[a]]
StoreEvents(ptr, len) == [i \in 1..len |-> <<"store", ptr + i - 1>>]

\* a debug_assert! whose condition is false panics in a build with debug
\* assertions and does nothing in a build without them
Panics(op, ptr, len, asserted) ==
    /\ ~asserted
    /\ uobs' = [op |-> op, ptr |-> ptr, len |-> len, res |-> "panic",
                out |-> <<>>, trace |-> <<>>]
    /\ sum_cnt' = sum_inc(sum_cnt, UserHart)
    /\ UNCHANGED <<page_table, umem, stvec, views, wpc, whart>>

\* the common shape of read, read_array: ensure the range, then load it
ReadRange(op, ptr, len) ==
    \E r \in {just_ensure_user_area(page_table, stvec, umem, ptr, len, "RO")} :
    LET failed == Propagates(r.res)
    IN  /\ page_table' = r.pt
        /\ stvec' = r.stvec
        /\ uobs' = [op |-> op, ptr |-> ptr, len |-> len,
                    res |-> IF failed THEN r.res ELSE "Ok",
                    out |-> IF failed THEN <<>> ELSE LoadAll(umem, ptr, len),
                    trace |-> IF failed THEN r.tr
                              ELSE r.tr \o LoadEvents(ptr, len)]
        /\ sum_cnt' = sum_dec(sum_inc(sum_cnt, UserHart), UserHart)
        /\ UNCHANGED <<umem, views, wpc, whart>>

\* the common shape of write, write_array: ensure the range, then store
WriteRange(op, ptr, val) ==
    \E r \in {just_ensure_user_area(page_table, stvec, umem, ptr, Len(val),
                                     "RW")} :
    LET failed == Propagates(r.res)
    IN  /\ page_table' = r.pt
        /\ stvec' = r.stvec
        /\ umem' = IF failed THEN umem ELSE StoreAll(umem, ptr, val)
        /\ uobs' = [op |-> op, ptr |-> ptr, len |-> Len(val),
                    res |-> IF failed THEN r.res ELSE "Ok",
                    out |-> <<>>,
                    trace |-> IF failed THEN r.tr
                              ELSE r.tr \o StoreEvents(ptr, Len(val))]
        /\ sum_cnt' = sum_dec(sum_inc(sum_cnt, UserHart), UserHart)
        /\ UNCHANGED <<views, wpc, whart>>

\* UserPtr::read of a T of `size` bytes
read(ptr, size) ==
    /\ ~Aborted
    /\ IF ptr = 0
       THEN /\ uobs' = [op |-> "read", ptr |-> ptr, len |-> size,
                        res |-> "EFAULT", out |-> <<>>, trace |-> <<>>]
            /\ sum_cnt' = sum_dec(sum_inc(sum_cnt, UserHart), UserHart)
            /\ UNCHANGED <<page_table, umem, stvec, views, wpc, whart>>
       ELSE ReadRange("read", ptr, size)
    /\ UNCHANGED <<procVars, netVars, execVars, vfsVars, devVars,
                   statVars, raceVars>>

\* UserPtr::read_array of n bytes
read_array(ptr, count) ==
    /\ ~Aborted
    /\ \/ Panics("read_array", ptr, count, count = 0 \/ ptr # 0)
       \/ ReadRange("read_array", ptr, count)
    /\ UNCHANGED <<procVars, netVars, execVars, vfsVars, devVars,
                   statVars, raceVars>>

\* UserPtr::write of a T of `size` bytes
write(ptr, size) ==
    /\ ~Aborted
    /\ \/ Panics("write", ptr, size, ptr # 0)
       \/ WriteRange("write", ptr, [i \in 1..size |-> 65])
    /\ UNCHANGED <<procVars, netVars, execVars, vfsVars, devVars,
                   statVars, raceVars>>

\* UserPtr::write_array of a slice of `count` bytes
write_array(ptr, count) ==
    /\ ~Aborted
    /\ \/ Panics("write_array", ptr, count, ptr # 0)
       \/ WriteRange("write_array", ptr, [i \in 1..count |-> 65])
    /\ UNCHANGED <<procVars, netVars, execVars, vfsVars, devVars,
                   statVars, raceVars>>

\* the memory space maps a page: lazily, present, or present read-only
mmap(p, kind) ==
    /\ ~Aborted
    /\ page_table[p] = "none"
    /\ page_table' = [page_table EXCEPT ![p] = kind]
    /\ uobs' = NoObs
    /\ UNCHANGED <<umem, stvec, sum_cnt, views, wpc, whart>>
    /\ UNCHANGED <<procVars, netVars, execVars, vfsVars, devVars,
                   statVars, raceVars>>

\* the memory space unmaps a page; its bytes are gone
munmap(p) ==
    /\ ~Aborted
    /\ page_table[p] # "none"
    /\ page_table' = [page_table EXCEPT ![p] = "none"]
    /\ umem' = [a \in UserAddrs |-> IF floor(a) = p THEN 0 ELSE umem[a]]
    /\ uobs' = NoObs
    /\ UNCHANGED <<stvec, sum_cnt, views, wpc, whart>>
    /\ UNCHANGED <<procVars, netVars, execVars, vfsVars, devVars,
                   statVars, raceVars>>

UserNext ==
    \/ \E p \in UserPages, kind \in {"lazy", "present", "ro"} : mmap(p, kind)
    \/ \E p \in UserPages : munmap(p)
    \/ \E ptr \in PtrInputs, size \in SizeInputs : read(ptr, size)
    \/ \E ptr \in PtrInputs, count \in CountInputs : read_array(ptr, count)
    \/ \E ptr \in PtrInputs, size \in SizeInputs : write(ptr, size)
    \/ \E ptr \in PtrInputs, count \in CountInputs : write_array(ptr, count)

SpecUser == Init /\ [][UserNext]_vars

\* the common shape of into_ref, into_mut, into_slice, into_mut_slice:
\* ensure the range, then hand out the view; a UserSlice is built with a
\* SumGuard of its own, a reference is not; the UserPtr is dropped
ViewRange(op, ptr, len, access, kind) ==
    \E r \in {just_ensure_user_area(page_table, stvec, umem, ptr, len, access)} :
    LET failed == Propagates(r.res)
        slice == kind \in {"slice", "mut_slice"}
    IN  /\ page_table' = r.pt
        /\ stvec' = r.stvec
        /\ uobs' = [op |-> op, ptr |-> ptr, len |-> len,
                    res |-> IF failed THEN r.res ELSE "Ok",
                    out |-> <<>>, trace |-> r.tr]
        /\ views' = IF failed THEN views ELSE views \cup {kind}
        /\ sum_cnt' = IF ~failed /\ slice
                      THEN sum_dec(sum_inc(sum_inc(sum_cnt, UserHart),
                                           UserHart), UserHart)
                      ELSE sum_dec(sum_inc(sum_cnt, UserHart), UserHart)
        /\ UNCHANGED <<umem, wpc, whart>>

\* UserPtr::into_ref
into_ref(ptr, size) ==
    /\ ~Aborted
    /\ "ref" \notin views
    /\ \/ Panics("into_ref", ptr, size, ptr # 0)
       \/ ViewRange("into_ref", ptr, size, "RO", "ref")
    /\ UNCHANGED <<procVars, netVars, execVars, vfsVars, devVars,
                   statVars, raceVars>>

\* UserPtr::into_mut
into_mut(ptr, size) ==
    /\ ~Aborted
    /\ "mut" \notin views
    /\ \/ Panics("into_mut", ptr, size, ptr # 0)
       \/ ViewRange("into_mut", ptr, size, "RW", "mut")
    /\ UNCHANGED <<procVars, netVars, execVars, vfsVars, devVars,
                   statVars, raceVars>>

\* UserPtr::into_slice
into_slice(ptr, count) ==
    /\ ~Aborted
    /\ "slice" \notin views
    /\ \/ Panics("into_slice", ptr, count, count = 0 \/ ptr # 0)
       \/ ViewRange("into_slice", ptr, count, "RO", "slice")
    /\ UNCHANGED <<procVars, netVars, execVars, vfsVars, devVars,
                   statVars, raceVars>>

\* UserPtr::into_mut_slice
into_mut_slice(ptr, count) ==
    /\ ~Aborted
    /\ "mut_slice" \notin views
    /\ \/ Panics("into_mut_slice", ptr, count, count = 0 \/ ptr # 0)
       \/ ViewRange("into_mut_slice", ptr, count, "RW", "mut_slice")
    /\ UNCHANGED <<procVars, netVars, execVars, vfsVars, devVars,
                   statVars, raceVars>>

\* the holder of a view lets go of it; a UserSlice drops its SumGuard
drop_view(kind) ==
    /\ ~Aborted
    /\ kind \in views
    /\ views' = views \ {kind}
    /\ sum_cnt' = IF kind \in {"slice", "mut_slice"}
                  THEN sum_dec(sum_cnt, UserHart) ELSE sum_cnt
    /\ uobs' = NoObs
    /\ UNCHANGED <<page_table, umem, stvec, wpc, whart>>
    /\ UNCHANGED <<procVars, netVars, execVars, vfsVars, devVars,
                   statVars, raceVars>>

ViewKinds == {"ref", "mut", "slice", "mut_slice"}
ViewCountInputs == {0, 1}

ViewNext ==
    \/ \E p \in UserPages, kind \in {"lazy", "ro"} : mmap(p, kind)
    \/ \E p \in UserPages : munmap(p)
    \/ \E ptr \in PtrInputs, size \in SizeInputs : into_ref(ptr, size)
    \/ \E ptr \in PtrInputs, size \in SizeInputs : into_mut(ptr, size)
    \/ \E ptr \in PtrInputs, count \in ViewCountInputs : into_slice(ptr, count)
    \/ \E ptr \in PtrInputs, count \in ViewCountInputs :
          into_mut_slice(ptr, count)
    \/ \E kind \in ViewKinds : drop_view(kind)

SpecView == Init /\ [][ViewNext]_vars

\* the user program stores a byte in a page it can write
user_store(a, b) ==
    /\ ~Aborted
    /\ page_table[floor(a)] = "present"
    /\ umem[a] # b
    /\ umem' = [umem EXCEPT ![a] = b]
    /\ uobs' = NoObs
    /\ UNCHANGED <<page_table, stvec, sum_cnt, views, wpc, whart>>
    /\ UNCHANGED <<procVars, netVars, execVars, vfsVars, devVars,
                   statVars, raceVars>>

\* UserPtr::read_cstr
read_cstr(ptr) ==
    /\ ~Aborted
    /\ \/ Panics("read_cstr", ptr, USIZE_MAX, ptr # 0)
       \/ \E r \in {ensure_user_area(page_table, stvec, umem, 0, ptr,
                                      USIZE_MAX, "RO", "cstr")} :
            /\ page_table' = r.pt
            /\ stvec' = r.stvec
            /\ uobs' = [op |-> "read_cstr", ptr |-> ptr, len |-> USIZE_MAX,
                        res |-> IF Propagates(r.res) THEN r.res
                                ELSE IF r.ended THEN "Ok" ELSE "panic",
                        out |-> IF ~Propagates(r.res) /\ r.ended
                                THEN r.str ELSE <<>>,
                        trace |-> r.tr]
            /\ sum_cnt' = sum_dec(sum_inc(sum_cnt, UserHart), UserHart)
            /\ UNCHANGED <<umem, views, wpc, whart>>
    /\ UNCHANGED <<procVars, netVars, execVars, vfsVars, devVars,
                   statVars, raceVars>>

\* UserPtr::read_cvec
read_cvec(ptr, junk) ==
    /\ ~Aborted
    /\ \/ Panics("read_cvec", ptr, USIZE_MAX, ptr # 0)
       \/ \E r \in {ensure_user_area(page_table, stvec, umem, junk, ptr,
                                      USIZE_MAX, "RO", "cvec")} :
            /\ page_table' = r.pt
            /\ stvec' = r.stvec
            /\ uobs' = [op |-> "read_cvec", ptr |-> ptr, len |-> USIZE_MAX,
                        res |-> IF Propagates(r.res) THEN r.res
                                ELSE IF r.ended THEN "Ok" ELSE "panic",
                        out |-> IF ~Propagates(r.res) /\ r.ended
                                THEN r.str ELSE <<>>,
                        trace |-> r.tr]
            /\ sum_cnt' = sum_dec(sum_inc(sum_cnt, UserHart), UserHart)
            /\ UNCHANGED <<umem, views, wpc, whart>>
    /\ UNCHANGED <<procVars, netVars, execVars, vfsVars, devVars,
                   statVars, raceVars>>

CstrNext ==
    \/ \E p \in UserPages, kind \in {"lazy", "present"} : mmap(p, kind)
    \/ \E p \in UserPages : munmap(p)
    \/ \E a \in UserAddrs, b \in Bytes : user_store(a, b)
    \/ \E ptr \in PtrInputs : read_cstr(ptr)
    \/ \E ptr \in PtrInputs, junk \in JunkInputs : read_cvec(ptr, junk)

SpecCstr == Init /\ [][CstrNext]_vars

----------------------------------------------------------------------------
(* The user-access gate across the suspension of sys_wait4: the syscall's   *)
(* wstatus argument is a UserWritePtr, built when the syscall is entered    *)
(* and dropped when sys_wait4 writes through it or returns.                 *)

HartFree(h) == \A t \in ExecTasks : whart[t] # h

\* a task enters sys_wait4 on hart h: the wstatus UserWritePtr is built
\* (SumGuard::new on h)
wait4_enter(t, h) ==
    /\ wpc[t] = "user"
    /\ HartFree(h)
    /\ sum_cnt[h] < MaxNest
    /\ wpc' = [wpc EXCEPT ![t] = "in_wait4"]
    /\ whart' = [whart EXCEPT ![t] = h]
    /\ sum_cnt' = sum_inc(sum_cnt, h)
    /\ UNCHANGED <<page_table, umem, stvec, views, uobs>>
    /\ UNCHANGED <<procVars, netVars, execVars, vfsVars, devVars,
                   statVars, raceVars>>

\* no child to reap: `WaitExpectSignal::new(&task, Sig::SIGCHLD).await`
\* suspends the task, wstatus still alive; the hart goes on to other work
wait4_suspend(t) ==
    /\ wpc[t] = "in_wait4"
    /\ wpc' = [wpc EXCEPT ![t] = "suspended"]
    /\ whart' = [whart EXCEPT ![t] = NoHart]
    /\ UNCHANGED <<page_table, umem, stvec, sum_cnt, views, uobs>>
    /\ UNCHANGED <<procVars, netVars, execVars, vfsVars, devVars,
                   statVars, raceVars>>

\* SIGCHLD has come: the task is polled again, on any hart that is free
wait4_resume(t, h) ==
    /\ wpc[t] = "suspended"
    /\ HartFree(h)
    /\ wpc' = [wpc EXCEPT ![t] = "resumed"]
    /\ whart' = [whart EXCEPT ![t] = h]
    /\ UNCHANGED <<page_table, umem, stvec, sum_cnt, views, uobs>>
    /\ UNCHANGED <<procVars, netVars, execVars, vfsVars, devVars,
                   statVars, raceVars>>

\* sys_wait4 writes wstatus or returns: the UserWritePtr is dropped on the
\* hart the task is running on
wait4_return(t) ==
    /\ wpc[t] \in {"in_wait4", "resumed"}
    /\ sum_cnt' = sum_dec(sum_cnt, whart[t])
    /\ wpc' = [wpc EXCEPT ![t] = "user"]
    /\ whart' = [whart EXCEPT ![t] = NoHart]
    /\ UNCHANGED <<page_table, umem, stvec, views, uobs>>
    /\ UNCHANGED <<procVars, netVars, execVars, vfsVars, devVars,
                   statVars, raceVars>>

GateNext ==
    \/ \E t \in ExecTasks, h \in Harts : wait4_enter(t, h)
    \/ \E t \in ExecTasks : wait4_suspend(t)
    \/ \E t \in ExecTasks, h \in Harts : wait4_resume(t, h)
    \/ \E t \in ExecTasks : wait4_return(t)

SpecGate == Init /\ [][GateNext]_vars

-----------------------------------------------------------------------------
(* The dentry tree (vfs-core/src/dentry.rs).  The filesystem's side of the  *)
(* Dentry trait (base_new_child, base_lookup, base_create, base_remove,     *)
(* base_rename_to) is outside the sources at hand: it follows the trait's   *)
(* documentation and the specification.                                     *)

UsedIds(ds) == {i \in DentryIds : ds[i].used}
FreeIds(ds) == DentryIds \ UsedIds(ds)
MinOf(S) == CHOOSE x \in S : \A y \in S : x <= y

\* DentryMeta::new with a parent: no inode, no children, state UnInit
DentryMetaNew(name, parent) ==
    [used |-> TRUE, name |-> name, parent |-> parent, inode |-> "none",
     state |-> "UnInit", children |-> NoChildren]

\* Dentry::inode followed by `.itype().is_dir()`, as lookup, create and
\* remove begin: ENOENT for a negative dentry, ENOTDIR for a non-directory
DirCheck(ds, d) ==
    IF ds[d].inode = "none" THEN "ENOENT"
    ELSE IF ds[d].inode # "dir" THEN "ENOTDIR"
    ELSE "Ok"

is_negetive(ds, d) == ds[d].inode = "none"

get_child(ds, d, name) == ds[d].children[name]

\* Dentry::remove_child: the entry is taken out of the map
remove_child(ds, d, name) == [ds EXCEPT ![d].children[name] = NoDentry]

\* Dentry::insert: the child is stored under ITS name
insert(ds, d, child) == [ds EXCEPT ![d].children[ds[child].name] = child]

set_inode(ds, d, inode) == [ds EXCEPT ![d].inode = inode]

\* mutant: the inode is left in place
clear_inode_Keep(ds, d) == ds

clear_inode(ds, d) == [ds EXCEPT ![d].inode = "none"]

change_state(ds, d, state) == [ds EXCEPT ![d].state = state]

\* base_new_child, through new_child: a negative child of d named name
new_child(ds, d, name) ==
    LET id == MinOf(FreeIds(ds))
    IN  [ds |-> [ds EXCEPT ![id] = DentryMetaNew(name, d)], child |-> id]

\* get_child_or_create can run: the child is there or a dentry can be made
CanGetOrCreate(ds, d, name) ==
    get_child(ds, d, name) # NoDentry \/ FreeIds(ds) # {}

\* mutant: the new dentry is not put in the child map
get_child_or_create_NoInsert(ds, d, name) ==
    IF get_child(ds, d, name) # NoDentry
    THEN [ds |-> ds, child |-> get_child(ds, d, name)]
    ELSE new_child(ds, d, name)

get_child_or_create(ds, d, name) ==
    IF get_child(ds, d, name) # NoDentry
    THEN [ds |-> ds, child |-> get_child(ds, d, name)]
    ELSE LET n == new_child(ds, d, name)
         IN  [ds |-> insert(n.ds, d, n.child), child |-> n.child]

\* base_lookup: a real error (err) is returned and changes nothing;
\* otherwise the child of that name gets the inode the filesystem holds
\* under the name, or stays negative when it holds none
base_lookup(ds, dk, d, name, err) ==
    LET c == get_child(ds, d, name)
    IN  IF err THEN [res |-> "EIO", ds |-> ds]
        ELSE IF c # NoDentry /\ dk[d][name] # "none"
        THEN [res |-> "Ok", ds |-> set_inode(ds, c, dk[d][name])]
        ELSE [res |-> "Ok", ds |-> ds]

\* base_create: a negative child of that name gets a fresh inode of the
\* mode's type and is returned; a failure of the filesystem (err), or a
\* name that exists, is an error and changes nothing
base_create(ds, dk, d, name, mode, err) ==
    LET c == get_child(ds, d, name)
    IN  IF err THEN [res |-> "ENOSPC", ds |-> ds, dk |-> dk, child |-> NoDentry]
        ELSE IF c = NoDentry \/ ~is_negetive(ds, c)
        THEN [res |-> "EEXIST", ds |-> ds, dk |-> dk, child |-> NoDentry]
        ELSE [res |-> "Ok", ds |-> set_inode(ds, c, mode),
              dk |-> [dk EXCEPT ![d][name] = mode], child |-> c]

\* base_remove: the filesystem deletes the name, or fails (err)
base_remove(dk, d, name, err) ==
    IF err THEN [res |-> "EIO", dk |-> dk]
    ELSE [res |-> "Ok", dk |-> [dk EXCEPT ![d][name] = "none"]]

\* mutant: the filesystem is asked every time
NeedsLookup_Always(state) == TRUE

\* `child.state() == DentryState::UnInit`
NeedsLookup(state) == state = "UnInit"

\* Dentry::lookup
lookup(d, name, err) ==
    /\ dents[d].used
    /\ IF DirCheck(dents, d) # "Ok"
       THEN /\ dobs' = [op |-> "lookup", dir |-> d, name |-> name,
                        res |-> DirCheck(dents, d), child |-> NoDentry,
                        calls |-> <<>>, flags |-> {}, path |-> <<>>]
            /\ UNCHANGED <<dents, disk>>
       ELSE /\ CanGetOrCreate(dents, d, name)
            /\ \E g \in {get_child_or_create(dents, d, name)} :
               IF NeedsLookup(g.ds[g.child].state)
               THEN \E bl \in {base_lookup(g.ds, disk, d, name, err)} :
                    IF bl.res # "Ok"
                    THEN /\ dents' = bl.ds
                         /\ dobs' = [op |-> "lookup", dir |-> d,
                                     name |-> name, res |-> bl.res,
                                     child |-> NoDentry,
                                     calls |-> <<"base_lookup">>,
                                     flags |-> {}, path |-> <<>>]
                    ELSE /\ dents' = change_state(bl.ds, g.child, "Sync")
                         /\ dobs' = [op |-> "lookup", dir |-> d,
                                     name |-> name, res |-> "Ok",
                                     child |-> g.child,
                                     calls |-> <<"base_lookup">>,
                                     flags |-> {}, path |-> <<>>]
               ELSE /\ dents' = g.ds
                    /\ dobs' = [op |-> "lookup", dir |-> d, name |-> name,
                                res |-> "Ok", child |-> g.child,
                                calls |-> <<>>, flags |-> {}, path |-> <<>>]
            /\ UNCHANGED disk
    /\ UNCHANGED <<procVars, netVars, execVars, userVars, devVars,
                   statVars, raceVars>>

\* Dentry::create
create(d, name, mode, err) ==
    /\ dents[d].used
    /\ IF DirCheck(dents, d) # "Ok"
       THEN /\ dobs' = [op |-> "create", dir |-> d, name |-> name,
                        res |-> DirCheck(dents, d), child |-> NoDentry,
                        calls |-> <<>>, flags |-> {}, path |-> <<>>]
            /\ UNCHANGED <<dents, disk>>
       ELSE /\ CanGetOrCreate(dents, d, name)
            /\ \E g \in {get_child_or_create(dents, d, name)} :
               \E bc \in {base_create(g.ds, disk, d, name, mode, err)} :
                    /\ dents' = bc.ds
                    /\ disk' = bc.dk
                    /\ dobs' = [op |-> "create", dir |-> d, name |-> name,
                                res |-> bc.res, child |-> bc.child,
                                calls |-> <<"base_create">>, flags |-> {}, path |-> <<>>]
    /\ UNCHANGED <<procVars, netVars, execVars, userVars, devVars,
                   statVars, raceVars>>

\* Dentry::remove
remove(d, name, err) ==
    /\ dents[d].used
    /\ IF DirCheck(dents, d) # "Ok"
       THEN /\ dobs' = [op |-> "remove", dir |-> d, name |-> name,
                        res |-> DirCheck(dents, d), child |-> NoDentry,
                        calls |-> <<>>, flags |-> {}, path |-> <<>>]
            /\ UNCHANGED <<dents, disk>>
       ELSE IF get_child(dents, d, name) = NoDentry
       THEN /\ dobs' = [op |-> "remove", dir |-> d, name |-> name,
                        res |-> "ENOENT", child |-> NoDentry,
                        calls |-> <<>>, flags |-> {}, path |-> <<>>]
            /\ UNCHANGED <<dents, disk>>
       ELSE \E br \in {base_remove(disk, d, name, err)} :
            /\ dents' = clear_inode(dents, get_child(dents, d, name))
            /\ disk' = br.dk
            /\ dobs' = [op |-> "remove", dir |-> d, name |-> name,
                        res |-> br.res,
                        child |-> get_child(dents, d, name),
                        calls |-> <<"base_remove">>, flags |-> {}, path |-> <<>>]
    /\ UNCHANGED <<procVars, netVars, execVars, userVars, devVars,
                   statVars, raceVars>>

\* a caller of get_child_or_create, on a directory
do_get_child_or_create(d, name) ==
    /\ dents[d].used
    /\ DirCheck(dents, d) = "Ok"
    /\ CanGetOrCreate(dents, d, name)
    /\ \E g \in {get_child_or_create(dents, d, name)} :
          /\ dents' = g.ds
          /\ dobs' = [op |-> "get_child_or_create", dir |-> d, name |-> name,
                      res |-> "Ok", child |-> g.child, calls |-> <<>>,
                      flags |-> {}, path |-> <<>>]
    /\ UNCHANGED disk
    /\ UNCHANGED <<procVars, netVars, execVars, userVars, devVars,
                   statVars, raceVars>>

\* a caller of insert: a dentry made as a child of d (new_child) is put in
\* d's map
do_insert(d, child) ==
    /\ dents[d].used
    /\ dents[child].used
    /\ dents[child].parent = d
    /\ dents' = insert(dents, d, child)
    /\ dobs' = [op |-> "insert", dir |-> d, name |-> dents[child].name,
                res |-> "Ok",
                child |-> get_child(dents, d, dents[child].name),
                calls |-> <<>>, flags |-> {}, path |-> <<>>]
    /\ UNCHANGED disk
    /\ UNCHANGED <<procVars, netVars, execVars, userVars, devVars,
                   statVars, raceVars>>

\* a caller of remove_child; the dentry taken out is handed to the caller
do_remove_child(d, name) ==
    /\ dents[d].used
    /\ get_child(dents, d, name) # NoDentry
    /\ dents' = remove_child(dents, d, name)
    /\ dobs' = [op |-> "remove_child", dir |-> d, name |-> name,
                res |-> "Ok", child |-> get_child(dents, d, name),
                calls |-> <<>>, flags |-> {}, path |-> <<>>]
    /\ UNCHANGED disk
    /\ UNCHANGED <<procVars, netVars, execVars, userVars, devVars,
                   statVars, raceVars>>

Modes == {"file"}

DentryNext ==
    \/ \E d \in DentryIds, name \in Names, err \in BOOLEAN :
          lookup(d, name, err)
    \/ \E d \in DentryIds, name \in Names, mode \in Modes, err \in BOOLEAN :
          create(d, name, mode, err)
    \/ \E d \in DentryIds, name \in Names, err \in BOOLEAN :
          remove(d, name, err)
    \/ \E d \in DentryIds, name \in Names : do_get_child_or_create(d, name)

SpecDentry == Init /\ [][DentryNext]_vars

\* the same with callers of the child map's own operations
DentryMapNext ==
    \/ DentryNext
    \/ \E d \in DentryIds, child \in DentryIds : do_insert(d, child)
    \/ \E d \in DentryIds, name \in Names : do_remove_child(d, name)

SpecDentryMap == Init /\ [][DentryMapNext]_vars

\* RenameFlags
RenameFlags == {"RENAME_EXCHANGE", "RENAME_NOREPLACE", "RENAME_WHITEOUT"}

\* the `while let Some(parent) = parent_opt` loop of has_ancestor: each
\* round compares self with dir (`Arc::ptr_eq(self, dir)`) and moves to the
\* parent's parent
RECURSIVE has_ancestor_loop(_, _, _, _)
has_ancestor_loop(ds, parent_opt, self, dir) ==
    IF parent_opt = NoDentry THEN FALSE
    ELSE IF self = dir THEN TRUE
    ELSE has_ancestor_loop(ds, ds[parent_opt].parent, self, dir)

has_ancestor(ds, self, dir) == has_ancestor_loop(ds, ds[self].parent, self, dir)

\* base_rename_to, the trait's default: Err(SysError::EINVAL)
base_rename_to(ds, self, new, flags) == [res |-> "EINVAL", ds |-> ds]

\* the result of rename_to's checks, "call" when base_rename_to is reached
rename_check(ds, self, new, flags) ==
    IF "RENAME_EXCHANGE" \in flags
       /\ ("RENAME_NOREPLACE" \in flags \/ "RENAME_WHITEOUT" \in flags)
    THEN "EINVAL"
    ELSE IF has_ancestor(ds, new, self) THEN "EINVAL"
    ELSE IF is_negetive(ds, new) /\ "RENAME_EXCHANGE" \in flags THEN "ENOENT"
    ELSE IF "RENAME_NOREPLACE" \in flags THEN "EEXIST"
    ELSE "call"

\* Dentry::rename_to
rename_to(self, new, flags) ==
    /\ dents[self].used
    /\ dents[new].used
    /\ IF rename_check(dents, self, new, flags) # "call"
       THEN /\ dobs' = [op |-> "rename_to", dir |-> self, name |-> "",
                        res |-> rename_check(dents, self, new, flags),
                        child |-> new, calls |-> <<>>, flags |-> flags, path |-> <<>>]
            /\ UNCHANGED dents
       ELSE \E br \in {base_rename_to(dents, self, new, flags)} :
            /\ dents' = br.ds
            /\ dobs' = [op |-> "rename_to", dir |-> self, name |-> "",
                        res |-> br.res, child |-> new,
                        calls |-> <<"base_rename_to">>, flags |-> flags, path |-> <<>>]
    /\ UNCHANGED disk
    /\ UNCHANGED <<procVars, netVars, execVars, userVars, devVars,
                   statVars, raceVars>>

RenameNext ==
    \/ \E d \in DentryIds, name \in Names : lookup(d, name, FALSE)
    \/ \E d \in DentryIds, name \in Names, mode \in Modes :
          create(d, name, mode, FALSE)
    \/ \E d \in DentryIds, name \in Names : remove(d, name, FALSE)
    \/ \E self \in DentryIds, new \in DentryIds, flags \in SUBSET RenameFlags :
          rename_to(self, new, flags)

SpecRename == Init /\ [][RenameNext]_vars

\* sys_mount's attachment of a submounted filesystem: its root dentry is
\* named "/", has a directory inode, has the mount point as parent and is
\* put in the mount point's child map
mount(mp) ==
    /\ dents[mp].used
    /\ DirCheck(dents, mp) = "Ok"
    /\ get_child(dents, mp, "/") = NoDentry
    /\ FreeIds(dents) # {}
    /\ \E n \in {new_child(dents, mp, "/")} :
          /\ dents' = insert(set_inode(n.ds, n.child, "dir"), mp, n.child)
          /\ dobs' = [NoDobs EXCEPT !.op = "mount", !.dir = mp, !.name = "/",
                                    !.res = "Ok", !.child = n.child]
    /\ UNCHANGED disk
    /\ UNCHANGED <<procVars, netVars, execVars, userVars, devVars,
                   statVars, raceVars>>

\* Dentry::path; a String is the sequence of its characters
RECURSIVE path(_, _)
path(ds, d) ==
    IF ds[d].parent # NoDentry
    THEN LET p == ds[d].parent
             pth == IF ds[d].name = "/" THEN <<>> ELSE <<"/", ds[d].name>>
         IN  IF ds[p].name = "/"
             THEN IF ds[p].parent # NoDentry
                  THEN path(ds, ds[p].parent) \o pth
                  ELSE pth
             ELSE path(ds, p) \o pth
    ELSE <<"/">>

\* a caller of path
do_path(d) ==
    /\ dents[d].used
    /\ dobs' = [NoDobs EXCEPT !.op = "path", !.dir = d, !.res = "Ok",
                              !.path = path(dents, d)]
    /\ UNCHANGED <<dents, disk>>
    /\ UNCHANGED <<procVars, netVars, execVars, userVars, devVars,
                   statVars, raceVars>>

PathModes == {"dir", "file"}

PathNext ==
    \/ \E d \in DentryIds, name \in Names : lookup(d, name, FALSE)
    \/ \E d \in DentryIds, name \in Names, mode \in PathModes :
          create(d, name, mode, FALSE)
    \/ \E mp \in DentryIds : mount(mp)
    \/ \E d \in DentryIds : do_path(d)

SpecPath == Init /\ [][PathNext]_vars

-----------------------------------------------------------------------------
(* The device manager's interrupt dispatch (driver/src/manager.rs).  The    *)
(* PLIC driver and the devices are outside the sources at hand: claim takes *)
(* one raised IRQ into service for a context, complete ends its service.    *)

NoIrq == 0

\* DeviceManager::irq_context
irq_context == 1

\* DeviceManager::probe: the PLIC is probed and every device that reports
\* an IRQ number (devs) is entered in irq_map
probe(devs) ==
    /\ ~plic.probed
    /\ plic' = [plic EXCEPT !.probed = TRUE]
    /\ irq_map' = devs
    /\ iobs' = <<>>
    /\ UNCHANGED <<procVars, netVars, execVars, userVars, vfsVars,
                   statVars, raceVars>>

\* an interrupt source raises its line at the PLIC; a line in service is
\* not forwarded again before its completion
raise_irq(irq) ==
    /\ plic.probed
    /\ irq \notin plic.pending
    /\ \A c \in plic.claimed : c[1] # irq
    /\ plic' = [plic EXCEPT !.pending = @ \cup {irq}]
    /\ iobs' = <<>>
    /\ UNCHANGED irq_map
    /\ UNCHANGED <<procVars, netVars, execVars, userVars, vfsVars,
                   statVars, raceVars>>

\* PLIC::claim_irq for a context: one of the raised IRQs, or none
claim_irq(pl, irq, context) ==
    [pl EXCEPT !.pending = @ \ {irq}, !.claimed = @ \cup {<<irq, context>>}]

\* PLIC::complete_irq
complete_irq(pl, irq, context) ==
    [pl EXCEPT !.claimed = @ \ {<<irq, context>>}]

\* mutant: every claimed IRQ is taken as bound
Bound_Always(map, irq_number) == TRUE

\* `self.irq_map.get(&irq_number)` is Some
Bound(map, irq_number) == irq_number \in map

\* DeviceManager::handle_irq on hart h (disable_interrupt masks that hart's
\* interrupts); irq_number is the PLIC's answer to the claim
handle_irq(h, irq_number) ==
    /\ plic.probed
    /\ IF irq_number = NoIrq
       THEN /\ plic.pending = {}
            /\ iobs' = << <<"disable_interrupt", h>>,
                          <<"claim", NoIrq, irq_context>> >>
            /\ UNCHANGED plic
       ELSE /\ irq_number \in plic.pending
            /\ IF Bound(irq_map, irq_number)
               THEN /\ iobs' = << <<"disable_interrupt", h>>,
                                  <<"claim", irq_number, irq_context>>,
                                  <<"handle_irq", irq_number>>,
                                  <<"complete", irq_number, irq_context>> >>
                    /\ plic' = complete_irq(
                                  claim_irq(plic, irq_number, irq_context),
                                  irq_number, irq_context)
               ELSE /\ iobs' = << <<"disable_interrupt", h>>,
                                  <<"claim", irq_number, irq_context>> >>
                    /\ plic' = claim_irq(plic, irq_number, irq_context)
    /\ UNCHANGED irq_map
    /\ UNCHANGED <<procVars, netVars, execVars, userVars, vfsVars,
                   statVars, raceVars>>

IrqNext ==
    \/ \E devs \in SUBSET Irqs : probe(devs)
    \/ \E irq \in Irqs : raise_irq(irq)
    \/ \E h \in Harts, irq_number \in Irqs \cup {NoIrq} :
          handle_irq(h, irq_number)

SpecIrq == Init /\ [][IrqNext]_vars

----------------------------------------------------------------------------
(* sys_exit and sys_exit_group on one hart while the parent runs on        *)
(* another: set_zombie and set_exit_code are two stores, each under its    *)
(* own lock, and the parent's hart can run between them.                   *)

\* sys_exit, line 70: task.set_zombie()
sys_exit_set_zombie(t, c) ==
    /\ Running(t)
    /\ t # InitTid
    /\ xpc[t] = NotExiting
    /\ zombie' = [zombie EXCEPT ![t] = TRUE]
    /\ xpc' = [xpc EXCEPT ![t] = [at |-> "exit", code |-> c]]
    /\ exitArg' = IF is_leader(t) THEN [exitArg EXCEPT ![t] = c] ELSE exitArg
    /\ UNCHANGED <<nextTid, registry, leader, parentOf, children, exit_code,
                   exited, pending, spawned, pc, w, ret, panicked, cloneRet>>
    /\ UNCHANGED <<netVars, execVars, userVars, vfsVars, devVars, statVars,
                   gpc>>

\* sys_exit, lines 72-74: the leader stores the code
sys_exit_set_exit_code(t) ==
    /\ xpc[t].at = "exit"
    /\ ~panicked
    /\ IF ExitRecordsCode(t)
       THEN exit_code' = [exit_code EXCEPT ![t] = EncodeExit(xpc[t].code)]
       ELSE UNCHANGED exit_code
    /\ xpc' = [xpc EXCEPT ![t] = NotExiting]
    /\ UNCHANGED <<nextTid, registry, leader, parentOf, children, zombie,
                   exited, pending, spawned, pc, w, ret, panicked, exitArg,
                   cloneRet>>
    /\ UNCHANGED <<netVars, execVars, userVars, vfsVars, devVars, statVars,
                   gpc>>

\* sys_exit_group, lines 82-86: every thread of the group becomes a zombie
sys_exit_group_set_zombie(t, c) ==
    /\ Running(t)
    /\ t # InitTid
    /\ xpc[t] = NotExiting
    /\ zombie' = [u \in Tids |-> IF u \in ThreadGroup(t) THEN TRUE ELSE zombie[u]]
    /\ xpc' = [xpc EXCEPT ![t] = [at |-> "exit_group", code |-> c]]
    /\ exitArg' = IF is_leader(t) THEN [exitArg EXCEPT ![t] = c] ELSE exitArg
    /\ UNCHANGED <<nextTid, registry, leader, parentOf, children, exit_code,
                   exited, pending, spawned, pc, w, ret, panicked, cloneRet>>
    /\ UNCHANGED <<netVars, execVars, userVars, vfsVars, devVars, statVars,
                   gpc>>

\* sys_exit_group, line 87: task.set_exit_code
sys_exit_group_set_exit_code(t) ==
    /\ xpc[t].at = "exit_group"
    /\ ~panicked
    /\ exit_code' = [exit_code EXCEPT ![t] = EncodeExit(xpc[t].code)]
    /\ xpc' = [xpc EXCEPT ![t] = NotExiting]
    /\ UNCHANGED <<nextTid, registry, leader, parentOf, children, zombie,
                   exited, pending, spawned, pc, w, ret, panicked, exitArg,
                   cloneRet>>
    /\ UNCHANGED <<netVars, execVars, userVars, vfsVars, devVars, statVars,
                   gpc>>

\* The parent and its single-threaded children on different harts: the
\* task loop calls do_exit once the exiting syscall has returned. (A clone
\* with flags 17 makes a process whose exit signal is SIGCHLD.)
ExitRaceNext ==
    \/ sys_clone(InitTid, 17)
    \/ \E t \in Tids, c \in ExitCodes : sys_exit_set_zombie(t, c)
    \/ \E t \in Tids : sys_exit_set_exit_code(t)
    \/ \E t \in Tids, c \in ExitCodes : sys_exit_group_set_zombie(t, c)
    \/ \E t \in Tids : sys_exit_group_set_exit_code(t)
    \/ \E t \in Tids : xpc[t] = NotExiting /\ do_exit(t)
    \/ \E pid \in {-1} \cup Tids, ws \in WsInputs, o \in OptionInputs :
          sys_wait4(pid, ws, o)
    \/ \E si \in pending[InitTid] : sys_wait4_wake(si)
    \/ ret_to_user

SpecExitRace == Init /\ [][ExitRaceNext]_vars

----------------------------------------------------------------------------
(* sys_wait4 and the children-time accumulator *)

MaxTime == 2

\* a task runs for a while: its own user + system time grows
tick(t) ==
    /\ Running(t)
    /\ user_system_time[t] < MaxTime
    /\ user_system_time' = [user_system_time EXCEPT ![t] = @ + 1]
    /\ UNCHANGED <<procVars, netVars, execVars, userVars, vfsVars, devVars,
                   child_time, raceVars>>

\* The init process and single-threaded children that run, exit and are
\* waited for; the accumulator is capped so that failing calls can be
\* repeated only a few times.
WaitNext ==
    \/ sys_clone(InitTid, 17)
    \/ \E t \in Tids \ {InitTid} : tick(t)
    \/ \E t \in Tids, c \in ExitCodes : sys_exit(t, c)
    \/ \E t \in Tids : do_exit(t)
    \/ \E pid \in {-1} \cup Tids, ws \in WsInputs, o \in OptionInputs :
          /\ child_time[InitTid] <= MaxTime
          /\ sys_wait4(pid, ws, o)
    \/ \E si \in pending[InitTid] : sys_wait4_wake(si)
    \/ ret_to_user

SpecWait == Init /\ [][WaitNext]_vars

----------------------------------------------------------------------------
(* get_child_or_create on several harts.  get_child, base_new_child and    *)
(* insert each take the children lock for themselves (lines 129-131,       *)
(* 148-153), so another hart can run between any two of them.              *)

\* line 267: self.get_child(name); a hit is returned, a miss enters the
\* closure of unwrap_or_else
goc_get_child(h, d, name) ==
    /\ gpc[h] = NoLookup
    /\ dents[d].used
    /\ DirCheck(dents, d) = "Ok"
    /\ \E c \in {get_child(dents, d, name)} :
          gpc' = [gpc EXCEPT ![h] =
                     [at |-> IF c # NoDentry THEN "done" ELSE "missed",
                      dir |-> d, name |-> name, new_dentry |-> NoDentry,
                      res |-> c]]
    /\ UNCHANGED <<procVars, netVars, execVars, userVars, vfsVars, devVars,
                   statVars, xpc>>

\* line 268: let new_dentry = self.new_child(name)
goc_new_child(h) ==
    /\ gpc[h].at = "missed"
    /\ FreeIds(dents) # {}
    /\ \E n \in {new_child(dents, gpc[h].dir, gpc[h].name)} :
          /\ dents' = n.ds
          /\ gpc' = [gpc EXCEPT ![h].at = "created", ![h].new_dentry = n.child]
    /\ UNCHANGED <<disk, dobs>>
    /\ UNCHANGED <<procVars, netVars, execVars, userVars, devVars, statVars,
                   xpc>>

\* lines 269-270: self.insert(new_dentry.clone()); new_dentry
goc_insert(h) ==
    /\ gpc[h].at = "created"
    /\ dents' = insert(dents, gpc[h].dir, gpc[h].new_dentry)
    /\ gpc' = [gpc EXCEPT ![h].at = "done", ![h].res = gpc[h].new_dentry]
    /\ UNCHANGED <<disk, dobs>>
    /\ UNCHANGED <<procVars, netVars, execVars, userVars, devVars, statVars,
                   xpc>>

\* the caller has used the returned dentry and drops it
goc_drop(h) ==
    /\ gpc[h].at = "done"
    /\ gpc' = [gpc EXCEPT ![h] = NoLookup]
    /\ UNCHANGED <<procVars, netVars, execVars, userVars, vfsVars, devVars,
                   statVars, xpc>>

GocNext ==
    \/ \E h \in Harts, d \in DentryIds, name \in Names : goc_get_child(h, d, name)
    \/ \E h \in Harts : goc_new_child(h)
    \/ \E h \in Harts : goc_insert(h)
    \/ \E h \in Harts : goc_drop(h)

SpecGoc == Init /\ [][GocNext]_vars

----------------------------------------------------------------------------
(* has_ancestor asked of every pair of dentries of a growing tree *)

\* a caller of has_ancestor
do_has_ancestor(self, dir) ==
    /\ dents[self].used
    /\ dents[dir].used
    /\ dobs' = [NoDobs EXCEPT !.op = "has_ancestor", !.dir = self,
                              !.child = dir,
                              !.res = IF has_ancestor(dents, self, dir)
                                      THEN "true" ELSE "false"]
    /\ UNCHANGED <<dents, disk>>
    /\ UNCHANGED <<procVars, netVars, execVars, userVars, devVars,
                   statVars, raceVars>>

AncestorNext ==
    \/ \E d \in DentryIds, name \in Names : lookup(d, name, FALSE)
    \/ \E d \in DentryIds, name \in Names, mode \in PathModes :
          create(d, name, mode, FALSE)
    \/ \E self \in DentryIds, dir \in DentryIds : do_has_ancestor(self, dir)

SpecAncestor == Init /\ [][AncestorNext]_vars

----------------------------------------------------------------------------
(* FutexWord.  A usize address is held as its two 32-bit halves: hi is     *)
(* bits 32..63 and lo is bits 0..31.  The user pages of the model lie in   *)
(* the half hi = 0; nothing is mapped where hi is not 0.                   *)

FutexAddrInputs == {[hi |-> h, lo |-> l] : h \in {0, 1}, l \in PtrInputs}

\* `a as u32`: the low 32 bits
as_u32(a) == a.lo

\* `x as usize` of a u32: zero extension
as_usize(x) == [hi |-> 0, lo |-> x]

\* FutexWord::from
FutexWord_from(a) == as_u32(a)

\* size_of::<u32>()
SizeOfU32 == 4

\* FutexWord::from(a).check(task)
futex_check(a) ==
    /\ ~Aborted
    /\ \E addr \in {as_usize(FutexWord_from(a))} :
       \E r \in {just_ensure_user_area(page_table, stvec, umem, addr.lo,
                                       SizeOfU32, "RO")} :
          /\ page_table' = r.pt
          /\ stvec' = r.stvec
          /\ uobs' = [op |-> "futex_check", addr |-> a, ptr |-> addr,
                      len |-> SizeOfU32, res |-> r.res, out |-> <<>>,
                      trace |-> r.tr]
    /\ UNCHANGED <<umem, sum_cnt, views, wpc, whart>>
    /\ UNCHANGED <<procVars, netVars, execVars, vfsVars, devVars,
                   statVars, raceVars>>

\* the four bytes at addr can be loaded
Loadable(pt, addr) ==
    /\ addr.hi = 0
    /\ \A i \in 0..(SizeOfU32 - 1) :
          PageState(pt, floor(addr.lo + i)) \in {"present", "ro"}

\* FutexWord::from(a).read(): atomic_load_acquire of the word; where the
\* word cannot be loaded the behaviour is undefined: the kernel faults, or
\* the load yields whatever it yields
futex_read(a, junk) ==
    /\ ~Aborted
    /\ \E addr \in {as_usize(FutexWord_from(a))} :
          IF Loadable(page_table, addr)
          THEN uobs' = [op |-> "futex_read", addr |-> a, ptr |-> addr,
                        len |-> SizeOfU32, res |-> "Ok",
                        out |-> LoadAll(umem, addr.lo, SizeOfU32),
                        trace |-> LoadEvents(addr.lo, SizeOfU32)]
          ELSE \/ uobs' = [op |-> "futex_read", addr |-> a, ptr |-> addr,
                           len |-> SizeOfU32, res |-> "panic",
                           out |-> <<>>, trace |-> <<>>]
               \/ uobs' = [op |-> "futex_read", addr |-> a, ptr |-> addr,
                           len |-> SizeOfU32, res |-> "Ok",
                           out |-> [i \in 1..SizeOfU32 |-> junk],
                           trace |-> LoadEvents(addr.lo, SizeOfU32)]
    /\ UNCHANGED <<page_table, umem, stvec, sum_cnt, views, wpc, whart>>
    /\ UNCHANGED <<procVars, netVars, execVars, vfsVars, devVars,
                   statVars, raceVars>>

FutexNext ==
    \/ \E p \in UserPages, kind \in {"lazy", "present"} : mmap(p, kind)
    \/ \E p \in UserPages : munmap(p)
    \/ \E a \in UserAddrs, b \in Bytes : user_store(a, b)
    \/ \E a \in FutexAddrInputs : futex_check(a)
    \/ \E a \in FutexAddrInputs, junk \in JunkInputs : futex_read(a, junk)

SpecFutex == Init /\ [][FutexNext]_vars

----------------------------------------------------------------------------
(* Properties *)

\* a step in which the init process calls sys_wait4 (its arguments are w')
Wait4Step == pc = "user" /\ (pc' # "user" \/ (panicked' /\ ~panicked))

\* the wait status of a normal exit with code c, low eight bits of c in
\* bits 8..15
WStatus(c) == 256 * (c - 256 * (c \div 256))

\* C1: whenever sys_wait4 returns a positive tid, on the zombie-scan path or
\* on the SIGCHLD path, the task registry and the caller's children map have
\* no entry for that tid.
C1_ReapedChildIsGone ==
    (ret.kind = "ok" /\ ret.val > 0) =>
        /\ ret.val \notin registry
        /\ ret.val \notin children[InitTid]

C1_Witness ==
    /\ ret.kind = "ok"
    /\ ret.val > 0
    /\ ret.path = "sigchld"
    /\ parentOf[ret.val] = InitTid

\* C2: wait4(-1, &ws, 0) with a writable ws returns a child of the caller
\* that has exited, and when that child, a leader, exited with code c the status
\* written is (c & 0xff) << 8 (0x2A00 for c = 42), on the zombie-scan path
\* and on the SIGCHLD path alike.
C2_ExitStatusDelivered ==
    (ret.kind = "ok" /\ ret.val > 0 /\ w.pid = -1 /\ w.ws = "ok" /\ w.option = 0) =>
        /\ parentOf[ret.val] = InitTid
        /\ zombie[ret.val]
        /\ (exitArg[ret.val] # NoCode => ret.ws = WStatus(exitArg[ret.val]))
        /\ (exitArg[ret.val] = 42 => ret.ws = 10752)

C2_Witness ==
    /\ ret.kind = "ok"
    /\ ret.path = "sigchld"
    /\ w.pid = -1 /\ w.ws = "ok" /\ w.option = 0
    /\ ret.val > 0
    /\ exitArg[ret.val] = 42
    /\ ret.ws = 10752

\* C3: while the parent is suspended in wait4(p, ws, 0), every step either
\* leaves it suspended with its children map unchanged and all its children
\* in the registry, or makes the call return; a successful return names p,
\* p has exited, and the status written is p's.
C3_SpecificWaitIgnoresOthers ==
    [][ (pc = "suspended" /\ w.pid > 0) =>
          \/ /\ pc' = "suspended"
             /\ children'[InitTid] = children[InitTid]
             /\ children[InitTid] \subseteq registry'
          \/ /\ pc' = "returned"
             /\ ret'.kind = "ok"
             /\ ret'.val = w.pid
             /\ zombie[w.pid]
             /\ (w.ws = "ok" => ret'.ws = exit_code[w.pid])
          \/ /\ pc' = "returned"
             /\ ret'.kind = "err"
             /\ ret'.err = "EFAULT"
             /\ zombie[w.pid] ]_vars

\* the parent is suspended for a live child while another child has exited
\* and its SIGCHLD has been taken
C3_Witness ==
    /\ pc = "suspended"
    /\ w.pid > 0
    /\ ~zombie[w.pid]
    /\ \E q \in children[InitTid] \ {w.pid} :
          /\ exited[q]
          /\ \A si \in pending[InitTid] : si.pid # q

\* C4: sys_wait4 returns ECHILD, without suspending and without changing the
\* children map or the registry, when the caller has no children and when
\* pid > 0 is not a key of the children map.
C4_NoChildIsECHILD ==
    [][ (Wait4Step /\ (children[InitTid] = {}
                       \/ (w'.pid > 0 /\ w'.pid \notin children[InitTid]))) =>
          /\ pc' = "returned"
          /\ ret'.kind = "err"
          /\ ret'.err = "ECHILD"
          /\ children' = children
          /\ registry' = registry
          /\ ~panicked' ]_vars

C4_Witness ==
    /\ pc = "returned"
    /\ ret.err = "ECHILD"
    /\ w.pid > 0
    /\ children[InitTid] # {}
    /\ w.pid \notin children[InitTid]

\* C5: sys_wait4 with pid = 0 or pid < -1, called by a task that has a
\* child, never aborts the kernel.
C5_GroupWaitNeverAborts ==
    (w.pid = 0 \/ w.pid < -1) => ~panicked

\* C6: sys_exit(c) marks the caller zombie; it records (c & 0xff) << 8 in
\* the caller's exit-code slot if the caller is the thread-group leader, and
\* otherwise leaves every exit-code slot and the leader's zombie flag as
\* they were.
C6_ExitRecordsOnlyForLeader ==
    [][ \A t \in Tids, c \in ExitCodes :
          sys_exit(t, c) =>
            /\ zombie'[t]
            /\ \A u \in Tids \ {t} : exit_code'[u] = exit_code[u]
            /\ IF leader[t] = t
               THEN exit_code'[t] = WStatus(c)
               ELSE /\ exit_code'[t] = exit_code[t]
                    /\ zombie'[leader[t]] = zombie[leader[t]] ]_vars

\* a non-leader thread has exited alone: its leader runs on
C6_Witness ==
    \E t \in Allocated :
        /\ leader[t] # t
        /\ zombie[t]
        /\ ~zombie[leader[t]]
        /\ exit_code[t] = 0
        /\ exit_code[leader[t]] = 0

\* C7: after sys_exit_group(c) by any thread of a group, every task of the
\* group is a zombie and the leader's exit code, the one wait4 reads, is
\* (c & 0xff) << 8.
C7_ExitGroupSetsGroupCode ==
    [][ \A t \in Tids, c \in ExitCodes :
          sys_exit_group(t, c) =>
            /\ \A u \in ThreadGroup(t) : zombie'[u]
            /\ exit_code'[leader[t]] = WStatus(c) ]_vars

\* flags that ask for THREAD without SIGHAND, or SIGHAND without VM
Inconsistent(flags) ==
    \/ HasBit(flags, CLONE_THREAD) /\ ~HasBit(flags, CLONE_SIGHAND)
    \/ HasBit(flags, CLONE_SIGHAND) /\ ~HasBit(flags, CLONE_VM)

\* C8: sys_clone with THREAD but not SIGHAND, or SIGHAND but not VM, returns
\* EINVAL and creates no task.
C8_InconsistentFlagsEINVAL ==
    (cloneRet.kind # "none" /\ Inconsistent(cloneRet.flags)) =>
        /\ cloneRet.kind = "err"
        /\ cloneRet.err = "EINVAL"
        /\ nextTid = cloneRet.before
        /\ cloneRet.val \notin spawned

\* C9: the free-list entries and the live buffers together are the pool's C
\* slots: their numbers add up to C, every free entry is a multiple of L
\* below C * L, no entry repeats, and no live buffer's slot is free.
C9_PoolAccounting ==
    pool.status = "ok" =>
        /\ Len(free_list) + Cardinality(live) = pool.capacity
        /\ \A i \in 1..Len(free_list) :
              /\ free_list[i] % pool.buf_len = 0
              /\ 0 <= free_list[i]
              /\ free_list[i] < pool.capacity * pool.buf_len
        /\ \A i, j \in 1..Len(free_list) : i # j => free_list[i] # free_list[j]
        /\ \A b \in live : \A i \in 1..Len(free_list) :
              free_list[i] # b.pool_offset

C9_Witness ==
    /\ pool.status = "ok"
    /\ netObs.op = "drop"
    /\ live # {}
    /\ Len(free_list) >= 2
    /\ free_list # InitialFreeList(Len(free_list), pool.buf_len)

\* C10: alloc returns None exactly when all C buffers are live, and an alloc
\* that directly follows a drop succeeds with the slot just dropped.
C10_AllocReusesFreedSlot ==
    [][ (netObs'.op \in {"alloc", "alloc_none"}) =>
          /\ (netObs'.op = "alloc_none") <=> (Cardinality(live) = pool.capacity)
          /\ netObs.op = "drop" =>
                (netObs'.op = "alloc" /\ netObs'.offset = netObs.offset) ]_vars

\* a pool of two with both buffers live again after one was dropped
C10_Witness ==
    /\ pool.status = "ok"
    /\ pool.capacity = 2
    /\ netObs.op = "alloc"
    /\ netObs.prev = "drop"
    /\ Cardinality(live) = 2

\* ---- C11 ----
\* how many times a slot stands in a free list
Occurrences(list, off) == Cardinality({i \in 1..Len(list) : list[i] = off})

SameBuffer(x, y) ==
    /\ x.header_len = y.header_len
    /\ x.packet_len = y.packet_len
    /\ x.capacity = y.capacity
    /\ x.pool_offset = y.pool_offset

\* C11: from_buf_ptr of a handle made by into_buf_ptr gives back a buffer
\* with the header_len, packet_len, capacity and pool offset of the buffer
\* the handle was made from; the slot of a buffer in raw-handle form is not
\* in the free list; and a slot enters the free list only by the drop of an
\* owned buffer, once, so that the restored buffer's drop is the one return
\* of its slot.
C11_RawHandleRoundTrip ==
    [][ /\ \A ptr \in raw \ raw' :
              \E nb \in live' \ live :
                  /\ SameBuffer(nb, ptr.of)
                  /\ live' = live \cup {nb}
                  /\ free_list' = free_list
        /\ \A ptr \in raw' : Occurrences(free_list', ptr.of.pool_offset) = 0
        /\ \A i \in 1..Len(free_list') :
              Occurrences(free_list', free_list'[i]) >
                  Occurrences(free_list, free_list'[i])
              => \/ netObs'.op = "new"
                 \/ /\ netObs'.op = "drop"
                    /\ \E b \in live \ live' : b.pool_offset = free_list'[i]
                    /\ Occurrences(free_list', free_list'[i]) = 1
      ]_vars

\* a buffer with a header and a packet has made the round trip ...
C11_Witness ==
    /\ netObs.op = "from_buf_ptr"
    /\ \E b \in live : /\ b.pool_offset = netObs.offset
                        /\ b.header_len \in HeaderLenInputs
                        /\ b.packet_len \in PacketLenInputs

\* ---- C12 ----
\* the steps of the ready queue
PopStep == Len(queue') < Len(queue)
HeadEnqueue(t) == tstate[t] = "idle" /\ tstate'[t] = "scheduled"
TailEnqueue(t) == tstate[t] = "running_woken" /\ tstate'[t] = "scheduled"
HeadEnqueuesOfBurst == {i \in 1..Len(burst) : burst[i][2] = "push_preempt"}

\* C12 as stated: a continuation woken while it is not running is enqueued
\* at the head and is the next continuation popped; one woken while running
\* is enqueued at the tail and popped only after those queued at that time.
C12_WokenIsNextPopped ==
    [][ /\ \A t \in ExecTasks : HeadEnqueue(t) => Head(queue') = t
        /\ \A t \in ExecTasks : TailEnqueue(t) => queue' = Append(queue, t)
        /\ PopStep => /\ \A i \in HeadEnqueuesOfBurst :
                             burst[i][1] = Head(queue)
                      /\ \A p \in must : p[2] # Head(queue)
      ]_vars

\* C12, amended: a continuation woken while suspended is enqueued at the
\* head and is popped ahead of every continuation already queued; the next
\* pop returns the continuation most recently enqueued at the head since
\* the last pop; a continuation woken while running is enqueued at the tail
\* when its poll returns and is popped only after every continuation that
\* was queued at that moment.
C12_WokenAheadOfQueued ==
    [][ /\ \A t \in ExecTasks :
              HeadEnqueue(t) => Head(queue') = t /\ Tail(queue') = queue
        /\ \A t \in ExecTasks : TailEnqueue(t) => queue' = Append(queue, t)
        /\ PopStep =>
              /\ \A p \in must : p[2] # Head(queue)
              /\ \A i \in HeadEnqueuesOfBurst :
                    (\A j \in HeadEnqueuesOfBurst : j <= i)
                    => burst[i][1] = Head(queue)
      ]_vars

\* continuations were enqueued at the head and at the tail since the last
\* pop, over a continuation that was queued before
C12_Witness ==
    /\ Len(queue) = 3
    /\ \E i, j \in 1..Len(burst) :
          burst[i][2] = "push_preempt" /\ burst[j][2] = "push"
    /\ must # {}

\* ---- C13 ----
\* C13: of two continuations enqueued in the same class (both push or both
\* push_preempt) with no pop between the two enqueues, the one enqueued
\* first is popped first.
C13_FifoWithinClass ==
    [][ PopStep => \A p \in fifo : p[2] # Head(queue) ]_vars

\* ---- C14 ----
\* every continuation has completed or is suspended
AllSettled == \A t \in ExecTasks : tstate[t] \in {"unspawned", "idle", "done"}

PagesOf(ptr, len) == {floor(a) : a \in ptr..(ptr + len - 1)}

\* the probe of the page faults and handle_page_fault fails
Unreachable(pt, pg, access) ==
    /\ IF access = "RO" THEN will_read_fail(pt, pg * PageSize)
                         ELSE will_write_fail(pt, pg * PageSize)
    /\ ~handle_page_fault(pt, pg * PageSize).ok

AccessOf(op) == IF op \in {"read", "read_array"} THEN "RO" ELSE "RW"
Copies(tr) == {i \in 1..Len(tr) : tr[i][1] \in {"load", "store"}}

\* C15: when read, read_array, write or write_array meets a page of its
\* range whose probe faults and whose page fault cannot be handled, it
\* returns EFAULT and has copied nothing, neither into the kernel nor into
\* user memory; every load and store of the copy comes after the probe of
\* every page of the range, with all of them present.
C15_FaultCopiesNothing ==
    [][ (uobs'.op \in Ops /\ uobs'.res # "panic" /\ uobs' # uobs) =>
        LET o == uobs'
            pgs == PagesOf(o.ptr, o.len)
        IN  /\ ( \/ \E pg \in pgs : Unreachable(page_table, pg, AccessOf(o.op))
                 \/ \E i \in 1..Len(o.trace) : o.trace[i][1] = "fault_failed" )
               => /\ o.res = "EFAULT"
                  /\ Copies(o.trace) = {}
                  /\ o.out = <<>>
                  /\ umem' = umem
            /\ \A c \in Copies(o.trace) : \A pg \in pgs :
                  /\ \E i \in 1..(c - 1) : o.trace[i] = <<"probe", pg>>
                  /\ ~Unreachable(page_table', pg, AccessOf(o.op))
                  /\ PageState(page_table', pg) \in {"present", "ro"}
      ]_vars

\* a write over two pages faulted the first page in and failed on the second
C15_Witness ==
    /\ uobs.op = "write_array"
    /\ uobs.res = "EFAULT"
    /\ \E i, j \in 1..Len(uobs.trace) :
          uobs.trace[i][1] = "fault" /\ uobs.trace[j][1] = "fault_failed"

\* ---- C16 ----
\* C16: a read or write of at least one byte through the null pointer
\* returns EFAULT and the kernel goes on; an operation of length zero
\* returns success and probes no page.
C16_NullIsEFAULT ==
    uobs.op \in Ops =>
        /\ (uobs.ptr = 0 /\ uobs.len >= 1) => uobs.res = "EFAULT"
        /\ uobs.len = 0 => (uobs.res = "Ok" /\ uobs.trace = <<>>)

\* ---- C17 ----
\* C17: whenever a user-memory operation has returned, the kernel trap
\* vector is the one installed.
C17_KernelTrapRestored == stvec = "kernel"

\* ---- C18 ----
\* C18: every view that is alive holds the user-access gate: the gate is
\* nested at least as deep as there are views.
C18_ViewsHoldGate == ~Aborted => sum_cnt[UserHart] >= Cardinality(views)

\* ---- C19 ----
\* C19: a hart that runs no task inside a syscall has its gate disabled:
\* the gate taken for wstatus is given back on the hart that took it, and
\* no gate is left enabled by a suspended or a completed sys_wait4.
C19_GateBalancedPerHart ==
    \A h \in Harts : HartFree(h) => sum_cnt[h] = 0

\* ---- C20 ----
\* C20: when read_cstr returns Ok(s), s has no NUL, s is the user bytes at
\* ptr .. ptr + len(s), and the user byte at ptr + len(s) is 0.
C20_CstrIsUserBytes ==
    (uobs.op = "read_cstr" /\ uobs.res = "Ok") =>
        LET str == uobs.out IN
        /\ \A i \in 1..Len(str) : str[i] # 0
        /\ \A i \in 1..Len(str) :
              /\ uobs.ptr + i - 1 \in UserAddrs
              /\ str[i] = umem[uobs.ptr + i - 1]
        /\ uobs.ptr + Len(str) \in UserAddrs
        /\ umem[uobs.ptr + Len(str)] = 0

\* ---- C21 ----
\* a page of the task's address space
Mapped(p) == PageState(page_table, p) \in {"lazy", "present", "ro"}

\* no NUL at or after ptr before the first page that is not mapped
Unterminated(ptr) ==
    /\ ptr # 0
    /\ Mapped(floor(ptr))
    /\ \A a \in UserAddrs :
          (a >= ptr /\ \A q \in floor(ptr)..floor(a) : Mapped(q))
              => umem[a] # 0

\* C21: read_cstr of a string with no NUL before the end of the mapped
\* address space returns EINVAL.
C21_UnterminatedIsEINVAL ==
    (uobs.op = "read_cstr" /\ Unterminated(uobs.ptr)) => uobs.res = "EINVAL"

\* what read_cstr does return for such a string: the probe of the first
\* page that is not mapped fails, and EFAULT is passed on
C21_UnterminatedIsEFAULT ==
    (uobs.op = "read_cstr" /\ Unterminated(uobs.ptr)) => uobs.res = "EFAULT"

C21_Reached ==
    /\ uobs.op = "read_cstr"
    /\ Unterminated(uobs.ptr)
    /\ floor(uobs.ptr) < MaxPage
    /\ Mapped(floor(uobs.ptr) + 1)

\* ---- C22 ----
\* the pages of the bytes a load event touches
LoadedPages(e) ==
    IF e[1] = "load" THEN {floor(e[2])}
    ELSE IF e[1] = "loadw" THEN {floor(e[2] + i) : i \in 0..(WordSize - 1)}
    ELSE {}

\* C22: every byte read_cstr loads, and every usize word read_cvec loads,
\* lies entirely inside pages probed earlier in the same call.
C22_LoadsInsideProbedPages ==
    uobs.op \in {"read_cstr", "read_cvec"} =>
        \A i \in 1..Len(uobs.trace) :
            \A p \in LoadedPages(uobs.trace[i]) :
                \E j \in 1..(i - 1) : uobs.trace[j] = <<"probe", p>>

\* the part of C22 about read_cstr
C22_CstrLoadsInsideProbedPages ==
    uobs.op = "read_cstr" =>
        \A i \in 1..Len(uobs.trace) :
            \A p \in LoadedPages(uobs.trace[i]) :
                \E j \in 1..(i - 1) : uobs.trace[j] = <<"probe", p>>

\* ---- C23 ----
\* C23: every dentry that has a parent is the entry of its parent's child
\* map under its own name.
C23_ParentListsChild ==
    \A d \in DentryIds :
        (dents[d].used /\ dents[d].parent # NoDentry) =>
            dents[dents[d].parent].children[dents[d].name] = d

\* ---- C24 ----
\* the directory, the name and the cached child of the dentry operation a
\* step performs
StepDir == dobs'.dir
StepName == dobs'.name
StepChild0 == IF StepDir \in DentryIds /\ StepName \in Names
              THEN get_child(dents, StepDir, StepName) ELSE NoDentry
StepOnDir(op) ==
    /\ dobs'.op = op
    /\ DirCheck(dents, StepDir) = "Ok"

\* the name is absent: the filesystem holds nothing under it and no
\* positive child is cached for it
Absent(d, name) ==
    /\ disk[d][name] = "none"
    /\ get_child(dents, d, name) # NoDentry
          => is_negetive(dents, get_child(dents, d, name))

\* C24: a lookup of an absent name that returns a child returns a negative
\* child in state Sync that is the directory's entry for the name; a create
\* of a name whose cached child is negative makes that same dentry positive,
\* it is still the entry for the name, and no other dentry is made.
C24_NegativeLookupThenCreate ==
    [][ /\ (StepOnDir("lookup") /\ dobs'.res = "Ok"
               /\ Absent(StepDir, StepName)) =>
              /\ dobs'.child # NoDentry
              /\ is_negetive(dents', dobs'.child)
              /\ dents'[dobs'.child].state = "Sync"
              /\ get_child(dents', StepDir, StepName) = dobs'.child
        /\ (StepOnDir("create") /\ dobs'.res = "Ok"
               /\ StepChild0 # NoDentry) =>
              /\ is_negetive(dents, StepChild0)
              /\ dobs'.child = StepChild0
              /\ ~is_negetive(dents', StepChild0)
              /\ get_child(dents', StepDir, StepName) = StepChild0
              /\ UsedIds(dents') = UsedIds(dents)
      ]_vars

\* a negative child that a lookup had put in state Sync has been promoted
\* by create
C24_Witness ==
    /\ dobs.op = "create"
    /\ dobs.res = "Ok"
    /\ dobs.name = "b"
    /\ dobs.child # NoDentry
    /\ dents[dobs.child].state = "Sync"
    /\ dents[dobs.child].inode = "file"
    /\ get_child(dents, dobs.dir, "b") = dobs.child

\* ---- C25 ----
\* C25: a lookup in a directory whose child for the name is in state UnInit
\* (or is made by this lookup) calls base_lookup once; on success the
\* returned child is the entry for the name and is in state Sync; on
\* failure the error is returned, the child stays UnInit and a negative
\* child stays negative.  A lookup of a name whose child has left UnInit
\* returns that child, calls nothing and changes nothing.
C25_LookupOnceWhileUnInit ==
    [][ StepOnDir("lookup") =>
          IF StepChild0 = NoDentry \/ dents[StepChild0].state = "UnInit"
          THEN /\ dobs'.calls = <<"base_lookup">>
               /\ get_child(dents', StepDir, StepName) # NoDentry
               /\ StepChild0 # NoDentry
                     => get_child(dents', StepDir, StepName) = StepChild0
               /\ IF dobs'.res = "Ok"
                  THEN /\ dobs'.child = get_child(dents', StepDir, StepName)
                       /\ dents'[dobs'.child].state = "Sync"
                  ELSE /\ dobs'.child = NoDentry
                       /\ LET c == get_child(dents', StepDir, StepName)
                          IN  /\ dents'[c].state = "UnInit"
                              /\ (StepChild0 = NoDentry
                                    \/ is_negetive(dents, StepChild0))
                                   => is_negetive(dents', c)
          ELSE /\ dobs'.calls = <<>>
               /\ dobs'.res = "Ok"
               /\ dobs'.child = StepChild0
               /\ dents' = dents
      ]_vars

\* a cached negative child, already looked up, is returned by a lookup that
\* does not ask the filesystem
C25_Witness ==
    /\ dobs.op = "lookup"
    /\ dobs.res = "Ok"
    /\ dobs.calls = <<>>
    /\ dobs.child # NoDentry
    /\ dents[dobs.child].state = "Sync"
    /\ is_negetive(dents, dobs.child)

\* ---- C26 ----
\* C26: remove in a directory without an entry for the name returns ENOENT,
\* calls nothing and changes nothing; with an entry, the child is negative
\* afterwards, base_remove is called once and its result is returned.
C26_RemoveContract ==
    [][ StepOnDir("remove") =>
          IF StepChild0 = NoDentry
          THEN /\ dobs'.res = "ENOENT"
               /\ dobs'.calls = <<>>
               /\ dents' = dents
               /\ disk' = disk
          ELSE /\ dobs'.calls = <<"base_remove">>
               /\ is_negetive(dents', StepChild0)
               /\ get_child(dents', StepDir, StepName) = StepChild0
               /\ \E err \in BOOLEAN :
                     /\ dobs'.res = base_remove(disk, StepDir, StepName, err).res
                     /\ disk' = base_remove(disk, StepDir, StepName, err).dk
      ]_vars

\* a positive child has been removed: it is negative and still cached
C26_Witness ==
    /\ dobs.op = "remove"
    /\ dobs.res = "Ok"
    /\ dobs.child # NoDentry
    /\ dents[dobs.child].state = "Sync"
    /\ is_negetive(dents, dobs.child)
    /\ get_child(dents, dobs.dir, dobs.name) = dobs.child

\* ---- C27 ----
\* the rename_to a step performs: its source, target and flags
RenameStep == dobs'.op = "rename_to"
ExchangeWithOther(flags) ==
    /\ "RENAME_EXCHANGE" \in flags
    /\ ("RENAME_NOREPLACE" \in flags \/ "RENAME_WHITEOUT" \in flags)
Rejected(res) == dobs'.res = res /\ dobs'.calls = <<>> /\ dents' = dents

\* C27: rename_to rejects, without calling base_rename_to, RENAME_EXCHANGE
\* with RENAME_NOREPLACE or RENAME_WHITEOUT by EINVAL; otherwise
\* RENAME_EXCHANGE onto a negative target by ENOENT and RENAME_NOREPLACE
\* onto a positive target by EEXIST.
C27_RenameRejections ==
    [][ RenameStep =>
          /\ ExchangeWithOther(dobs'.flags) => Rejected("EINVAL")
          /\ (~ExchangeWithOther(dobs'.flags)
                /\ "RENAME_EXCHANGE" \in dobs'.flags
                /\ is_negetive(dents, dobs'.child)) => Rejected("ENOENT")
          /\ (~ExchangeWithOther(dobs'.flags)
                /\ "RENAME_NOREPLACE" \in dobs'.flags
                /\ ~is_negetive(dents, dobs'.child)) => Rejected("EEXIST")
      ]_vars

\* ---- C28 ----
\* anc is on the parent chain of d
RECURSIVE OnParentChain(_, _, _)
OnParentChain(ds, anc, d) ==
    IF ds[d].parent = NoDentry THEN FALSE
    ELSE ds[d].parent = anc \/ OnParentChain(ds, anc, ds[d].parent)

\* C28: rename_to returns EINVAL, without calling base_rename_to, whenever
\* the target is an ancestor of the source.
C28_AncestorTargetIsEINVAL ==
    [][ (RenameStep /\ OnParentChain(dents, dobs'.child, dobs'.dir))
            => Rejected("EINVAL")
      ]_vars

\* ---- C29 ----
\* the names from the global root down to d, each preceded by "/"; the
\* global root and a submounted root add nothing
RECURSIVE Components(_, _)
Components(ds, d) ==
    IF ds[d].parent = NoDentry THEN <<>>
    ELSE Components(ds, ds[d].parent)
            \o (IF ds[d].name = "/" THEN <<>> ELSE <<"/", ds[d].name>>)

AbsolutePath(ds, d) ==
    IF Components(ds, d) = <<>> THEN <<"/">> ELSE Components(ds, d)

\* C29: path() of a dentry is the absolute path made of the names of its
\* ancestors and itself, a submounted root adding no component; it is "/"
\* for the global root, and it is never empty and begins with "/".
C29_PathIsAbsolute ==
    dobs.op = "path" =>
        /\ dobs.path = AbsolutePath(dents, dobs.dir)
        /\ dobs.path # <<>>
        /\ dobs.path[1] = "/"

\* the same for the dentries that are not at or below a filesystem mounted
\* on the global root
RECURSIVE UnderRootMount(_, _)
UnderRootMount(ds, d) ==
    IF ds[d].parent = NoDentry THEN FALSE
    ELSE \/ (ds[d].name = "/" /\ ds[d].parent = RootId)
         \/ UnderRootMount(ds, ds[d].parent)

C29_PathIsAbsoluteOffRootMount ==
    (dobs.op = "path" /\ ~UnderRootMount(dents, dobs.dir)) =>
        /\ dobs.path = AbsolutePath(dents, dobs.dir)
        /\ dobs.path # <<>>
        /\ dobs.path[1] = "/"

\* ---- C30 ----
\* the events of the last handle_irq
IrqEvents(kind) == {i \in 1..Len(iobs) : iobs[i][1] = kind}
ClaimedIrq == iobs[2][2]
ClaimedContext == iobs[2][3]

\* C30: handle_irq signals completion iff an IRQ was claimed and it is
\* bound in irq_map; it completes the claimed IRQ for the claiming context,
\* once, after the device's handle_irq; a claimed unbound IRQ and an empty
\* claim end without completion (and without a device's handle_irq).
C30_CompleteIffClaimedAndBound ==
    iobs # <<>> =>
        /\ iobs[2][1] = "claim"
        /\ (IrqEvents("complete") # {})
              <=> (ClaimedIrq # NoIrq /\ ClaimedIrq \in irq_map)
        /\ \A i \in IrqEvents("complete") :
              /\ iobs[i] = <<"complete", ClaimedIrq, ClaimedContext>>
              /\ i = Len(iobs)
              /\ \E j \in 1..(i - 1) : iobs[j] = <<"handle_irq", ClaimedIrq>>
        /\ IrqEvents("complete") = {} => IrqEvents("handle_irq") = {}
        /\ Cardinality(IrqEvents("complete")) <= 1
        /\ \A c \in plic.claimed : c[1] \notin irq_map

\* a bound IRQ has been handled and completed while an unbound one, claimed
\* earlier, stays in service
C30_Witness ==
    /\ IrqEvents("complete") # {}
    /\ plic.claimed # {}
    /\ ClaimedIrq \in irq_map

\* ---- C31 ----
\* the hart and the context of the handle_irq whose events iobs holds
IrqHart(obs) == obs[1][2]
IrqContexts(obs) ==
    {obs[i][3] : i \in {j \in 1..Len(obs) : obs[j][1] \in {"claim", "complete"}}}

\* C31: two calls of handle_irq that run on different harts claim from, and
\* complete to, different contexts.
C31_ContextPerHart ==
    [][ (iobs # <<>> /\ iobs' # <<>> /\ IrqHart(iobs) # IrqHart(iobs'))
            => IrqContexts(iobs) \cap IrqContexts(iobs') = {}
      ]_vars

\* ---- C32 ----
\* a sys_wait4 of the init process returns a child's tid in this step
Wait4Returns(tid) ==
    /\ ret = NoRet
    /\ ret' # NoRet
    /\ ret'.kind = "ok"
    /\ ret'.val = tid

\* C32: a tid that sys_wait4 returns is, when the call removes it, a zombie
\* in the caller's children map; so no tid is returned twice, and a SIGCHLD
\* left pending for a child that the zombie scan has reaped does not make a
\* later blocking wait return that child again.
C32_ReturnsOnlyZombieChild ==
    [][ \A tid \in Tids :
           Wait4Returns(tid) => (tid \in children[InitTid] /\ zombie[tid])
      ]_vars

\* ---- C33 ----
\* C33: with the child exiting on one hart and the parent in sys_wait4 on
\* another, the status a reaping sys_wait4 writes is the one the child's
\* sys_exit or sys_exit_group was called with: the parent never sees the
\* zombie flag and reads the exit-code slot before the code is stored.
C33_ReapReadsRecordedCode ==
    [][ \A tid \in Tids :
           (Wait4Returns(tid) /\ ret'.ws # NoWrite)
              => ret'.ws = EncodeExit(exitArg[tid])
      ]_vars

\* ---- C34 ----
\* C34: a sys_wait4 that fails with EFAULT while writing wstatus leaves the
\* parent as it was: the child is still in the children map and in the
\* registry, and the children-time accumulator has not grown.
C34_EFAULTLeavesParentUnchanged ==
    [][ (ret = NoRet /\ ret' # NoRet /\ ret'.err = "EFAULT")
           => /\ children' = children
              /\ registry' = registry
              /\ child_time' = child_time
      ]_vars

\* ---- C35 ----
\* C35: two harts that call get_child_or_create on one directory for one
\* name hold the same dentry when both have returned, and it is the dentry
\* the directory's child map holds under that name.
C35_ConcurrentCallersAgree ==
    \A h1, h2 \in Harts :
       (/\ h1 # h2
        /\ gpc[h1].at = "done" /\ gpc[h2].at = "done"
        /\ gpc[h1].dir = gpc[h2].dir /\ gpc[h1].name = gpc[h2].name)
          => /\ gpc[h1].res = gpc[h2].res
             /\ gpc[h1].res = get_child(dents, gpc[h1].dir, gpc[h1].name)

\* ---- C36 ----
\* C36: a remove that returns an error (ENOTDIR, ENOENT, or the error of
\* base_remove) leaves the directory's child map and the child's inode as
\* they were.
C36_FailedRemoveChangesNothing ==
    [][ (dobs'.op = "remove" /\ dobs'.res # "Ok")
           => /\ dents'[dobs'.dir].children = dents[dobs'.dir].children
              /\ \A name \in Names :
                    LET c == get_child(dents, dobs'.dir, name)
                    IN  c # NoDentry => dents'[c].inode = dents[c].inode
      ]_vars

\* ---- C37 ----
\* C37: rename_to with RENAME_NOREPLACE and without RENAME_EXCHANGE onto a
\* negative target other than the source, when neither dentry is an
\* ancestor of the other, does not fail with EEXIST: it calls base_rename_to
\* and returns its result.
C37_NoReplaceOntoNegativeProceeds ==
    [][ (/\ RenameStep
         /\ "RENAME_NOREPLACE" \in dobs'.flags
         /\ "RENAME_EXCHANGE" \notin dobs'.flags
         /\ is_negetive(dents, dobs'.child)
         /\ dobs'.child # dobs'.dir
         /\ ~OnParentChain(dents, dobs'.child, dobs'.dir)
         /\ ~OnParentChain(dents, dobs'.dir, dobs'.child))
           => /\ dobs'.res # "EEXIST"
              /\ dobs'.calls = <<"base_rename_to">>
              /\ dobs'.res = base_rename_to(dents, dobs'.dir, dobs'.child,
                                            dobs'.flags).res
      ]_vars

\* ---- C38 ----
\* C38: a.has_ancestor(d) is true exactly when d is reached from a by one
\* or more parent links; it is false for a = d and for a d off a's chain.
C38_HasAncestorIsParentChain ==
    [][ dobs'.op = "has_ancestor"
           => (dobs'.res = "true"
                  <=> OnParentChain(dents, dobs'.child, dobs'.dir))
      ]_vars

\* ---- C39 ----
\* the continuation is on the ready queue / is being polled
Queued(t) == tstate[t] = "scheduled"
Polled(t) == tstate[t] \in {"running", "running_woken"}

\* C39: when some hart stays in the poll loop of run_until_idle and every
\* poll returns, every continuation on the ready queue is eventually
\* polled, whatever other continuations are re-armed at the head or tail.
C39_QueuedIsEventuallyPolled ==
    (\E h \in Harts : <>[](hpc[h] = "loop"))
       => \A t \in ExecTasks : Queued(t) ~> Polled(t)

\* ---- C40 ----
\* C40: FutexWord::from(a) keeps the whole address: the address check
\* validates, and the address read loads from, is a itself, also when a is
\* at or above 2^32.
C40_FutexWordKeepsAddress ==
    /\ uobs.op \in {"futex_check", "futex_read"} => uobs.ptr = uobs.addr
    /\ (uobs.op = "futex_check" /\ uobs.res = "Ok")
          => Loadable(page_table, uobs.addr)

====
